---------------------------- MODULE Spec2Model ----------------------------
(***************************************************************************)
(* Verification model of research30: the HTTP transport with retry, the    *)
(* source adapters' paging, the concurrent fan-out of run_research, the    *)
(* reduction pipeline of main() and the deduplicator.                      *)
(*                                                                         *)
(* The module holds several state machines over one set of variables; each *)
(* specification starts one of them and keeps the others idle.             *)
(***************************************************************************)
EXTENDS Integers, Sequences, FiniteSets, TLC

\* Python's None: for a string field, and for an Optional[int] field
None == "None"
NoneInt == -1

(***************************************************************************)
(* Generic helpers                                                         *)
(***************************************************************************)
Min2(a, b) == IF a <= b THEN a ELSE b
Max2(a, b) == IF a >= b THEN a ELSE b

Range(s) == {s[k] : k \in 1..Len(s)}

\* the subsequence of s at the positions that satisfy Keep (order kept)
RECURSIVE SelectIdx(_, _, _)
SelectIdx(s, keep, k) ==
    IF k > Len(s) THEN <<>>
    ELSE (IF k \in keep THEN <<s[k]>> ELSE <<>>) \o SelectIdx(s, keep, k + 1)

VARIABLES
    \* ---- http.request / http.request_text -------------------------------
    h_mode,        \* "json" (request) or "text" (request_text)
    h_attempt,     \* the loop variable `attempt`: attempts completed so far
    h_last_error,  \* last_error
    h_status,      \* "running", "returned" or "raised"
    h_raised,      \* the exception that left the function, None otherwise
    h_outcomes,    \* what each attempt met, in order
    h_sleeps,      \* the delays slept between attempts (units of RETRY_DELAY)
    \* ---- dedupe.dedupe_cross_source --------------------------------------
    dd_pc,         \* "input": the argument is being built; "done": returned
    dd_items,      \* the argument all_items
    dd_log,        \* the removals made: [removed, by, pass]
    dd_out,        \* the returned list
    \* ---- research30.main -------------------------------------------------
    p_pc,          \* "fetch": the adapters are returning; "done": report built
    p_topic,       \* args.topic
    p_sources,     \* sources_set
    p_cur,         \* the source whose adapter returns next (index in SourceOrder)
    p_rank,        \* the least rank the current adapter can still meet
    p_raw,         \* raw_results: source -> (items, error)
    p_report,      \* report: per-source item lists and errors
    p_saved,       \* the dict report.to_dict() handed to cache.save_cache
    \* ---- research30.run_research -----------------------------------------
    r_pc,          \* "submit", "collect" (in as_completed) or "done"
    r_sources,     \* sources_set
    r_submitted,   \* how many of search_funcs have been submitted
    r_future,      \* source -> "none", "pending", "running", "finished", "collected"
    r_outcome,     \* source -> what its search function returned or raised
    r_results,     \* results: source -> (items, error), for the sources collected
    \* ---- the page loop of a paged adapter --------------------------------
    a_pc,          \* "loop", "fanout" (bioRxiv/medRxiv futures) or "returned"
    a_adapter,     \* which search function runs
    a_total,       \* the number of records the API reports for the query
    a_page,        \* pages requested so far
    a_pending,     \* cursors of the futures as_completed has not yielded yet
    a_log,         \* what each page request met, in the order it was handled
    a_results,     \* the local list `results`
    a_return,      \* the returned pair (items, error)
    \* ---- normalize.filter_by_date_range ----------------------------------
    f_pc,          \* "input": the arguments are being built; "done": returned
    f_items,       \* the argument items
    f_require_date,\* the argument require_date
    f_result,      \* the returned list
    \* ---- one call of a search function ----------------------------------
    s_pc,          \* "fetch": reading the upstream records; "returned"; "raised"
    s_src,         \* the source whose search function runs
    s_topic,       \* the argument topic
    s_seen,        \* upstream records read so far
    s_items,       \* the list the function builds
    s_error,       \* the error it returns, None without one
    \* ---- score.sort_items called on a list and on a permutation of it ----
    o_pc,          \* "input": the list is being built; "done": both calls returned
    o_items,       \* the list
    o_permuted,    \* the same items in another order
    o_sorted,      \* sort_items(o_items)
    o_sorted_permuted, \* sort_items(o_permuted)
    \* ---- run_research's dict handed to the processing phase of main() ----
    m_pc,          \* "collect": in as_completed; "done": the report is built
    m_sources,     \* sources_set
    m_outcome,     \* source -> what its search function returned or raised
    m_results,     \* the dict results, its entries in insertion order
    m_report,      \* the report built from it
    \* ---- the score of one item under both date confidences --------------
    c_pc,          \* "input": sub-scores chosen; "done": both scores computed
    c_weights,     \* the weights of the item's class, in hundredths
    c_subs,        \* the sub-scores (relevance, recency, engagement)
    c_high,        \* item.score with date_confidence "high"
    c_low,         \* item.score with date_confidence "low"
    k_pc,          \* main(): "check", "research", "search", "done"
    k_mock,        \* args.mock
    k_refresh,     \* args.refresh
    k_sources,     \* sources_set
    k_file,        \* the cache file of the key: exists, age in hours, content
    k_calls,       \* the adapters called, and "discover_topics"
    k_out,         \* what output_result was given
    k_saved,       \* cache.save_cache was called
    l_pc,          \* an adapter call: "call", "returned"
    l_adapter,     \* the adapter called
    l_depth,       \* depth
    l_upstream,    \* the numbers of records the upstream serves
    l_len,         \* the length of the returned list
    t_pc,          \* run_research and the OpenAlex search: "discover", "search", "fetched"
    t_response,    \* what http.get of the topics request does
    t_topic_ids,   \* topic_ids
    t_filter,      \* the filter of the works request
    b_pc,          \* the main thread of search_preprint_server: "start", "first", "collect", "cancel", "shutdown", "returned"
    b_server,      \* server
    b_total,       \* the total the upstream reports
    b_profile,     \* what the pages of the upstream hold
    b_cursors,     \* remaining_cursors
    b_futures,     \* future_to_cursor: the state of the future of each cursor
    b_cancel,      \* the position of the cancel loop in future_to_cursor
    b_requests,    \* the cursors of the page requests sent, in the order sent
    b_results,     \* results
    b_return,      \* the (items, error) returned
    q_pc,          \* one search, counted: "loop", "fanout", "returned"
    q_adapter,     \* the adapter
    q_total,       \* the total the upstream reports
    q_count,       \* the count the first page of a preprint server reports
    q_queue,       \* the cursors submitted and not yet requested
    q_requests     \* the number of page requests sent

httpVars == <<h_mode, h_attempt, h_last_error, h_status, h_raised, h_outcomes, h_sleeps>>
ddVars == <<dd_pc, dd_items, dd_log, dd_out>>

pipeVars == <<p_pc, p_topic, p_sources, p_cur, p_rank, p_raw, p_report, p_saved>>

runVars == <<r_pc, r_sources, r_submitted, r_future, r_outcome, r_results>>

pageVars == <<a_pc, a_adapter, a_total, a_page, a_pending, a_log, a_results, a_return>>

filterVars == <<f_pc, f_items, f_require_date, f_result>>

searchVars == <<s_pc, s_src, s_topic, s_seen, s_items, s_error>>

sortVars == <<o_pc, o_items, o_permuted, o_sorted, o_sorted_permuted>>

mainVars == <<m_pc, m_sources, m_outcome, m_results, m_report>>

confVars == <<c_pc, c_weights, c_subs, c_high, c_low>>

cacheVars == <<k_pc, k_mock, k_refresh, k_sources, k_file, k_calls, k_out, k_saved>>

depthVars == <<l_pc, l_adapter, l_depth, l_upstream, l_len>>

topicsVars == <<t_pc, t_response, t_topic_ids, t_filter>>

fanVars == <<b_pc, b_server, b_total, b_profile, b_cursors, b_futures, b_cancel, b_requests, b_results, b_return>>

capVars == <<q_pc, q_adapter, q_total, q_count, q_queue, q_requests>>

vars == <<httpVars, ddVars, pipeVars, runVars, pageVars, filterVars, searchVars, sortVars, mainVars, confVars, cacheVars, depthVars, topicsVars, fanVars, capVars>>

(***************************************************************************)
(* http.py: request and request_text                                       *)
(***************************************************************************)
MAX_RETRIES == 3
RETRY_DELAY == 1

\* status codes urllib reports through urllib.error.HTTPError
StatusCodes == {304, 400, 404, 429, 499, 500, 503}

HttpErr(code) == [kind |-> "HTTPError", status_code |-> code]
URLErr == [kind |-> "HTTPError", status_code |-> -1]     \* "URL Error: ..."
ConnErr == [kind |-> "HTTPError", status_code |-> -2]    \* "Connection error: ..."
JsonErr == [kind |-> "HTTPError", status_code |-> -3]    \* "Invalid JSON response: ..."
UnicodeErr == [kind |-> "UnicodeDecodeError", status_code |-> -4]
NoError == [kind |-> None, status_code |-> 0]

\* what one attempt met: "ok", "status" (an HTTP error status), "urlerror",
\* "connerror", "badjson" or "badutf8"
Outcome(kind, code) == [kind |-> kind, code |-> code]

\* http.py:71 / http.py:125: the statuses that are raised at once
IsPermanentMut(code) == 400 <= code /\ code < 500
IsPermanent(code) == 400 <= code /\ code < 500 /\ code # 429

HttpIdle ==
    /\ h_mode = "json"
    /\ h_attempt = 0
    /\ h_last_error = NoError
    /\ h_status = "idle"
    /\ h_raised = NoError
    /\ h_outcomes = <<>>
    /\ h_sleeps = <<>>

HttpInit ==
    /\ h_mode \in {"json", "text"}
    /\ h_attempt = 0
    /\ h_last_error = NoError
    /\ h_status = "running"
    /\ h_raised = NoError
    /\ h_outcomes = <<>>
    /\ h_sleeps = <<>>

HttpInLoop == h_status = "running" /\ h_attempt < MAX_RETRIES

\* the tail of a retried except branch: sleep unless this was the last attempt
HttpBackoff ==
    /\ h_sleeps' = IF h_attempt < MAX_RETRIES - 1
                   THEN Append(h_sleeps, RETRY_DELAY * (h_attempt + 1))
                   ELSE h_sleeps
    /\ h_attempt' = h_attempt + 1

\* urlopen answered 2xx, the body decoded (and, in JSON mode, parsed)
HttpSuccess ==
    /\ HttpInLoop
    /\ h_outcomes' = Append(h_outcomes, Outcome("ok", 0))
    /\ h_status' = "returned"
    /\ UNCHANGED <<h_mode, h_attempt, h_last_error, h_raised, h_sleeps>>

\* except urllib.error.HTTPError
HttpStatusError(code) ==
    /\ HttpInLoop
    /\ h_outcomes' = Append(h_outcomes, Outcome("status", code))
    /\ h_last_error' = HttpErr(code)
    /\ IF IsPermanent(code)
       THEN /\ h_status' = "raised"
            /\ h_raised' = HttpErr(code)
            /\ UNCHANGED <<h_attempt, h_sleeps>>
       ELSE /\ HttpBackoff
            /\ UNCHANGED <<h_status, h_raised>>
    /\ UNCHANGED h_mode

\* except urllib.error.URLError
HttpURLError ==
    /\ HttpInLoop
    /\ h_outcomes' = Append(h_outcomes, Outcome("urlerror", 0))
    /\ h_last_error' = URLErr
    /\ HttpBackoff
    /\ UNCHANGED <<h_mode, h_status, h_raised>>

\* except json.JSONDecodeError (request only)
HttpJsonDecodeError ==
    /\ HttpInLoop
    /\ h_mode = "json"
    /\ h_outcomes' = Append(h_outcomes, Outcome("badjson", 0))
    /\ h_last_error' = JsonErr
    /\ h_status' = "raised"
    /\ h_raised' = JsonErr
    /\ UNCHANGED <<h_mode, h_attempt, h_sleeps>>

\* except (OSError, TimeoutError, ConnectionResetError)
HttpConnError ==
    /\ HttpInLoop
    /\ h_outcomes' = Append(h_outcomes, Outcome("connerror", 0))
    /\ h_last_error' = ConnErr
    /\ HttpBackoff
    /\ UNCHANGED <<h_mode, h_status, h_raised>>

\* body.decode('utf-8') fails: no except clause matches, the error leaves the loop
HttpUnicodeError ==
    /\ HttpInLoop
    /\ h_outcomes' = Append(h_outcomes, Outcome("badutf8", 0))
    /\ h_status' = "raised"
    /\ h_raised' = UnicodeErr
    /\ UNCHANGED <<h_mode, h_attempt, h_last_error, h_sleeps>>

\* the loop ran out: raise last_error
HttpExhausted ==
    /\ h_status = "running"
    /\ h_attempt >= MAX_RETRIES
    /\ h_status' = "raised"
    /\ h_raised' = h_last_error
    /\ UNCHANGED <<h_mode, h_attempt, h_last_error, h_outcomes, h_sleeps>>

HttpStep ==
    \/ HttpSuccess
    \/ \E code \in StatusCodes : HttpStatusError(code)
    \/ HttpURLError
    \/ HttpJsonDecodeError
    \/ HttpConnError
    \/ HttpUnicodeError
    \/ HttpExhausted


(***************************************************************************)
(* Text: titles are sequences of one-character strings                     *)
(***************************************************************************)
UpperChars == {"G", "M", "A", "B"}
PunctChars == {"-", "!"}
SpaceChars == {" "}

\* str.lower() on one character
LowerChar(c) ==
    CASE c = "G" -> "g"
      [] c = "M" -> "m"
      [] c = "A" -> "a"
      [] c = "B" -> "b"
      [] OTHER -> c

RECURSIVE MapLower(_)
MapLower(t) == IF t = <<>> THEN <<>> ELSE <<LowerChar(Head(t))>> \o MapLower(Tail(t))

\* re.sub(r'[^\w\s]', ' ', text)
RECURSIVE PunctToSpace(_)
PunctToSpace(t) ==
    IF t = <<>> THEN <<>>
    ELSE <<IF Head(t) \in PunctChars THEN " " ELSE Head(t)>> \o PunctToSpace(Tail(t))

\* re.sub(r'\s+', ' ', text)
RECURSIVE CollapseSpaces(_)
CollapseSpaces(t) ==
    IF Len(t) < 2 THEN t
    ELSE IF Head(t) \in SpaceChars /\ Head(Tail(t)) \in SpaceChars
         THEN CollapseSpaces(Tail(t))
         ELSE <<Head(t)>> \o CollapseSpaces(Tail(t))

\* str.strip()
RECURSIVE StripLeft(_)
StripLeft(t) == IF t # <<>> /\ Head(t) \in SpaceChars THEN StripLeft(Tail(t)) ELSE t
RECURSIVE StripRight(_)
StripRight(t) ==
    IF t # <<>> /\ t[Len(t)] \in SpaceChars THEN StripRight(SubSeq(t, 1, Len(t) - 1)) ELSE t
Strip(t) == StripRight(StripLeft(t))

\* dedupe.normalize_text
normalize_text(t) == Strip(CollapseSpaces(PunctToSpace(MapLower(t))))

NGRAM_N == 3

\* dedupe.get_ngrams: the set of character 3-grams of the normalized text,
\* or the text itself when it is shorter than 3
get_ngrams(t) ==
    LET text == normalize_text(t) IN
    IF Len(text) < NGRAM_N THEN {text}
    ELSE {SubSeq(text, i, i + NGRAM_N - 1) : i \in 1..(Len(text) - NGRAM_N + 1)}

\* threshold: float = 0.7, kept as the fraction THRESHOLD_NUM / THRESHOLD_DEN
THRESHOLD_NUM == 7
THRESHOLD_DEN == 10

\* dedupe.jaccard_similarity(set1, set2) >= threshold; the quotient
\* intersection / union is compared exactly (IEEE division of two small
\* integers rounds k/n to the same double as the literal 0.7 when 10k = 7n)
SimilarSetsMut(set1, set2) ==
    IF set1 = {} \/ set2 = {} THEN FALSE
    ELSE LET intersection == Cardinality(set1 \cap set2)
             union == Cardinality(set1 \cup set2)
         IN union > 0 /\ THRESHOLD_DEN * intersection > THRESHOLD_NUM * union
SimilarSets(set1, set2) ==
    IF set1 = {} \/ set2 = {} THEN FALSE
    ELSE LET intersection == Cardinality(set1 \cap set2)
             union == Cardinality(set1 \cup set2)
         IN union > 0 /\ THRESHOLD_DEN * intersection >= THRESHOLD_NUM * union

SimilarTitles(t1, t2) == SimilarSets(get_ngrams(t1), get_ngrams(t2))

\* the titles of the model: "Gene-Map", "gene maps", "gene maps ab", "AB"
\* Jaccard: (1,2) = 6/7, (2,3) = 7/10, (1,3) = 6/10, "AB" is similar to none
TitleGeneMap == <<"G", "e", "n", "e", "-", "M", "a", "p">>
TitleGeneMaps == <<"g", "e", "n", "e", " ", "m", "a", "p", "s">>
TitleGeneMapsAb == <<"g", "e", "n", "e", " ", " ", "m", "a", "p", "s", " ", "a", "b">>
TitleShort == <<"A", "B">>

(***************************************************************************)
(* schema.py: items.  One record shape stands for the six dataclasses;     *)
(* cls names the class, a field the class lacks is None.                   *)
(***************************************************************************)
\* schema.AcademicEngagement
AcademicEngagement(published_doi, published_journal, citation_count, downloads, likes, author_count) ==
    [published_doi |-> published_doi, published_journal |-> published_journal,
     citation_count |-> citation_count, downloads |-> downloads, likes |-> likes,
     author_count |-> author_count]

\* engagement=None
NoEngagement == [none |-> TRUE]

\* schema.SubScores
SubScores(relevance, recency, engagement) ==
    [relevance |-> relevance, recency |-> recency, engagement |-> engagement]

\* the fields dedupe, score, sort and the report read, for all six classes
\* (BiorxivItem, ArxivItem, PubmedItem, HuggingFaceItem, OpenAlexItem and
\* SemanticScholarItem, the last as normalize_semanticscholar_items builds it)
Item(cls, source, id, title, doi, preprint_doi, primary_category, date, date_confidence, engagement, relevance) ==
    [cls |-> cls, source |-> source, id |-> id, title |-> title, doi |-> doi,
     preprint_doi |-> preprint_doi, primary_category |-> primary_category,
     date |-> date, date_confidence |-> date_confidence, engagement |-> engagement,
     relevance |-> relevance, subs |-> SubScores(0, 0, 0), score |-> 0]

SourceNames == {"openalex", "semanticscholar", "biorxiv", "medrxiv", "arxiv", "pubmed",
                "huggingface"}

\* DOI strings of the model, and str.lower().strip() on them
DoiX == "10.1038/X "
DoiXLower == "10.1038/x"
DoiP == "10.1101/p"
LowerStrip(d) == IF d = DoiX THEN DoiXLower ELSE d

(***************************************************************************)
(* Raw rows: the dicts an adapter returns.  One record shape for all        *)
(* sources; nid is the native id (arxiv_id, pmid, hf_id, openalex_id,       *)
(* paper_id), doi the row's 'doi' (for bioRxiv/medRxiv the preprint's own), *)
(* relevance is in units of 1/RelUnit.                                      *)
(***************************************************************************)
Row(source, nid, title, doi, published_doi, date, relevance, journal, cited_by_count, author_count, downloads, likes, primary_category) ==
    [source |-> source, nid |-> nid, title |-> title, doi |-> doi,
     published_doi |-> published_doi, date |-> date, relevance |-> relevance,
     journal |-> journal, cited_by_count |-> cited_by_count,
     author_count |-> author_count, downloads |-> downloads, likes |-> likes,
     primary_category |-> primary_category]

\* x or None
OrNone(x) == IF x = "" THEN None ELSE x

\* the requested range: dates are day numbers, from_date .. to_date is 30 days
from_date == 3
to_date == from_date + 30

\* dates.get_date_confidence
get_date_confidence(date_str, from, to) ==
    IF date_str = NoneInt THEN "low"
    ELSE IF from <= date_str /\ date_str <= to THEN "high"
    ELSE "low"

(***************************************************************************)
(* normalize.py: normalize_*_items, one row at a time                      *)
(***************************************************************************)
normalize_biorxiv_item(row, server) ==
    Item("BiorxivItem", row.source, <<server, row.doi>>, row.title, None, row.doi, None,
         row.date, get_date_confidence(row.date, from_date, to_date),
         AcademicEngagement(OrNone(row.published_doi), OrNone(row.journal), NoneInt,
                            NoneInt, NoneInt, row.author_count),
         row.relevance)

normalize_arxiv_item(row) ==
    Item("ArxivItem", None, <<"arxiv", row.nid>>, row.title, None, None,
         row.primary_category, row.date,
         get_date_confidence(row.date, from_date, to_date),
         AcademicEngagement(None, None, NoneInt, NoneInt, NoneInt, row.author_count),
         row.relevance)

normalize_pubmed_item(row) ==
    Item("PubmedItem", None, <<"pubmed", row.nid>>, row.title, row.doi, None, None,
         row.date, get_date_confidence(row.date, from_date, to_date),
         AcademicEngagement(OrNone(row.doi), OrNone(row.journal), NoneInt, NoneInt,
                            NoneInt, row.author_count),
         row.relevance)

normalize_huggingface_item(row) ==
    Item("HuggingFaceItem", None, <<"hf", row.nid>>, row.title, None, None, None,
         row.date, get_date_confidence(row.date, from_date, to_date),
         AcademicEngagement(None, None, NoneInt, row.downloads, row.likes, NoneInt),
         row.relevance)

normalize_openalex_item(row) ==
    Item("OpenAlexItem", None, <<"openalex", row.nid>>, row.title, row.doi, None, None,
         row.date, get_date_confidence(row.date, from_date, to_date),
         AcademicEngagement(row.doi, OrNone(row.journal), row.cited_by_count, NoneInt,
                            NoneInt, row.author_count),
         row.relevance)

normalize_semanticscholar_item(row) ==
    Item("SemanticScholarItem", None, <<"s2", row.nid>>, row.title, row.doi, None, None,
         row.date, get_date_confidence(row.date, from_date, to_date),
         AcademicEngagement(row.doi, OrNone(row.journal), row.cited_by_count, NoneInt,
                            NoneInt, row.author_count),
         row.relevance)

\* the normalize_*_items call main() makes for the rows of source src
NormalizeRow(src, row) ==
    CASE src = "openalex" -> normalize_openalex_item(row)
      [] src = "semanticscholar" -> normalize_semanticscholar_item(row)
      [] src = "biorxiv" -> normalize_biorxiv_item(row, "biorxiv")
      [] src = "medrxiv" -> normalize_biorxiv_item(row, "medrxiv")
      [] src = "arxiv" -> normalize_arxiv_item(row)
      [] src = "pubmed" -> normalize_pubmed_item(row)
      [] src = "huggingface" -> normalize_huggingface_item(row)

NormalizeRows(src, rows) == [k \in 1..Len(rows) |-> NormalizeRow(src, rows[k])]

(***************************************************************************)
(* dedupe.py                                                               *)
(***************************************************************************)
SOURCE_PRIORITY ==
    [pubmed |-> 0, openalex |-> 1, biorxiv |-> 2, medrxiv |-> 3, arxiv |-> 4,
     huggingface |-> 5]
UNKNOWN_PRIORITY == 99

\* dedupe._get_source: an isinstance chain with no branch for SemanticScholarItem
_get_source(item) ==
    CASE item.cls = "BiorxivItem" -> item.source
      [] item.cls = "ArxivItem" -> "arxiv"
      [] item.cls = "PubmedItem" -> "pubmed"
      [] item.cls = "HuggingFaceItem" -> "huggingface"
      [] item.cls = "OpenAlexItem" -> "openalex"
      [] OTHER -> "unknown"

\* a DOI field that is set and non-empty (Python truthiness)
Truthy(d) == d # None /\ d # ""

\* dedupe._get_dois: the list of the DOIs the item carries, lower-cased, stripped
_get_doisMut(item) ==
    LET d1 == IF item.cls = "BiorxivItem" /\ Truthy(item.preprint_doi)
              THEN <<item.preprint_doi>> ELSE <<>>
        d2 == IF item.cls = "PubmedItem" /\ Truthy(item.doi) THEN <<item.doi>> ELSE <<>>
        d3 == IF item.cls = "OpenAlexItem" /\ Truthy(item.doi) THEN <<item.doi>> ELSE <<>>
        dois == d1 \o d2 \o d3
    IN [k \in 1..Len(dois) |-> LowerStrip(dois[k])]
_get_dois(item) ==
    LET d1 == IF item.cls = "BiorxivItem" /\ Truthy(item.preprint_doi)
              THEN <<item.preprint_doi>> ELSE <<>>
        d2 == IF item.cls = "PubmedItem" /\ Truthy(item.doi) THEN <<item.doi>> ELSE <<>>
        d3 == IF item.cls = "OpenAlexItem" /\ Truthy(item.doi) THEN <<item.doi>> ELSE <<>>
        eng == item.engagement
        d4 == IF eng # NoEngagement /\ Truthy(eng.published_doi)
              THEN <<eng.published_doi>> ELSE <<>>
        dois == d1 \o d2 \o d3 \o d4
    IN [k \in 1..Len(dois) |-> LowerStrip(dois[k])]

_get_title(item) == item.title

\* dedupe._source_priority
_source_priority(item) ==
    LET src == _get_source(item) IN
    IF src \in DOMAIN SOURCE_PRIORITY THEN SOURCE_PRIORITY[src] ELSE UNKNOWN_PRIORITY

\* the key (_source_priority(item), -item.score) and Python's tuple order on it
PriKey(item) == <<_source_priority(item), 0 - item.score>>
KeyLess(a, b) == a[1] < b[1] \/ (a[1] = b[1] /\ a[2] < b[2])
KeyLeq(a, b) == a[1] < b[1] \/ (a[1] = b[1] /\ a[2] <= b[2])

\* doi_map[doi]: the indices that reference doi, in input order, one entry
\* per reference
RECURSIVE DoiIndices(_, _, _)
DoiIndices(all_items, doi, idx) ==
    IF idx > Len(all_items) THEN <<>>
    ELSE LET dois == _get_dois(all_items[idx])
             hits == SelectSeq(dois, LAMBDA d : d = doi)
         IN [k \in 1..Len(hits) |-> idx] \o DoiIndices(all_items, doi, idx + 1)

DoiKeys(all_items) ==
    UNION {Range(_get_dois(all_items[idx])) : idx \in 1..Len(all_items)}

\* min(indices, key=...): the first index of the least key
BestIdx(all_items, indices) ==
    CHOOSE b \in Range(indices) :
        /\ \A o \in Range(indices) : KeyLeq(PriKey(all_items[b]), PriKey(all_items[o]))
        /\ \A o \in Range(indices) :
              PriKey(all_items[o]) = PriKey(all_items[b]) => b <= o

\* Pass 1 of dedupe_cross_source: the removals of the DOI pass, each with the
\* index it was removed in favour of
DoiPass(all_items) ==
    {[removed |-> idx, by |-> BestIdx(all_items, DoiIndices(all_items, doi, 1)), pass |-> "doi"] :
        <<doi, idx>> \in
            {p \in DoiKeys(all_items) \X (1..Len(all_items)) :
                LET indices == DoiIndices(all_items, p[1], 1) IN
                /\ Len(indices) > 1
                /\ p[2] \in Range(indices)
                /\ p[2] # BestIdx(all_items, indices)}}

Removed(log) == {e.removed : e \in log}

\* which of the pair is removed in Pass 2: TRUE removes j, FALSE removes i
CrossRemovesJMut(item_i, item_j) == item_i.score >= item_j.score
CrossRemovesJStrict(item_i, item_j) == KeyLess(PriKey(item_i), PriKey(item_j))
CrossRemovesJ(item_i, item_j) == KeyLeq(PriKey(item_i), PriKey(item_j))

\* the inner loop of Pass 2 for a fixed i (position in ngrams), from position j
RECURSIVE CrossInner(_, _, _, _, _)
CrossInner(all_items, ngrams, i, j, log) ==
    IF j > Len(ngrams) THEN log
    ELSE IF ngrams[j] \in Removed(log) THEN CrossInner(all_items, ngrams, i, j + 1, log)
    ELSE LET idx_i == ngrams[i]
             idx_j == ngrams[j]
             item_i == all_items[idx_i]
             item_j == all_items[idx_j]
         IN IF SimilarTitles(_get_title(item_i), _get_title(item_j))
            THEN IF CrossRemovesJ(item_i, item_j)
                 THEN CrossInner(all_items, ngrams, i, j + 1,
                         log \cup {[removed |-> idx_j, by |-> idx_i, pass |-> "title"]})
                 ELSE CrossInner(all_items, ngrams, i, j + 1,
                         log \cup {[removed |-> idx_i, by |-> idx_j, pass |-> "title"]})
            ELSE CrossInner(all_items, ngrams, i, j + 1, log)

\* the outer loop of Pass 2
RECURSIVE CrossOuter(_, _, _, _)
CrossOuter(all_items, ngrams, i, log) ==
    IF i > Len(ngrams) THEN log
    ELSE IF ngrams[i] \in Removed(log) THEN CrossOuter(all_items, ngrams, i + 1, log)
    ELSE CrossOuter(all_items, ngrams, i + 1, CrossInner(all_items, ngrams, i, i + 1, log))

\* the removal log of dedupe_cross_source: who was removed, in favour of whom
CrossLog(all_items) ==
    IF Len(all_items) <= 1 THEN {}
    ELSE LET log1 == DoiPass(all_items)
             remaining == SelectIdx([k \in 1..Len(all_items) |-> k],
                                    (1..Len(all_items)) \ Removed(log1), 1)
         IN CrossOuter(all_items, remaining, 1, log1)

\* dedupe.dedupe_cross_source
dedupe_cross_sourceMut(all_items) ==
    LET to_remove == Removed(CrossLog(all_items))
        first == {r \in to_remove : \A o \in to_remove : r <= o}
    IN  SelectIdx(all_items, (1..Len(all_items)) \ first, 1)

dedupe_cross_source(all_items) ==
    SelectIdx(all_items, (1..Len(all_items)) \ Removed(CrossLog(all_items)), 1)

(***************************************************************************)
(* dedupe_cross_source applied to the lists of up to MaxItems items that    *)
(* the normalizers and the scorers can produce                              *)
(***************************************************************************)
MaxItems == 3

DedupeTitles == {TitleGeneMap, TitleGeneMaps, TitleGeneMapsAb}
DedupeScores == {60, 80}

\* rows that differ in source, title and DOIs
DedupeRow(src, title, doi, published_doi) ==
    Row(src, "n1", title, doi, published_doi, from_date, 500, "", 0, 1, 0, 0, "")

DedupeRows ==
    {DedupeRow("pubmed", t, d, "") : t \in DedupeTitles, d \in {None, DoiX}}
    \cup {DedupeRow(src, t, d, "") :
            src \in {"openalex", "semanticscholar"}, t \in DedupeTitles,
            d \in {None, DoiXLower}}
    \cup {DedupeRow(src, t, DoiP, pd) :
            src \in {"biorxiv", "medrxiv"}, t \in DedupeTitles, pd \in {"", DoiXLower}}
    \cup {DedupeRow(src, t, None, "") : src \in {"arxiv", "huggingface"}, t \in DedupeTitles}

\* a normalized item with the score the scorer gave it
WithScore(item, sc) == [item EXCEPT !.score = sc]

DedupeItems ==
    {WithScore(NormalizeRow(r.source, r), sc) : r \in DedupeRows, sc \in DedupeScores}

DdIdle ==
    /\ dd_pc = "idle"
    /\ dd_items = <<>>
    /\ dd_log = {}
    /\ dd_out = <<>>

DdInit ==
    /\ dd_pc = "input"
    /\ dd_items = <<>>
    /\ dd_log = {}
    /\ dd_out = <<>>

\* the caller appends one more item to the argument
DdAddItem(item) ==
    /\ dd_pc = "input"
    /\ Len(dd_items) < MaxItems
    /\ dd_items' = Append(dd_items, item)
    /\ UNCHANGED <<dd_pc, dd_log, dd_out>>

\* dedupe_cross_source(all_items) runs and returns
DdCrossSource ==
    /\ dd_pc = "input"
    /\ dd_pc' = "done"
    /\ dd_log' = CrossLog(dd_items)
    /\ dd_out' = dedupe_cross_source(dd_items)
    /\ UNCHANGED dd_items

DdStep ==
    \/ \E item \in DedupeItems : DdAddItem(item)
    \/ DdCrossSource

(***************************************************************************)
(* normalize.compute_keyword_relevance.  A relevance is kept in thousandths *)
(* (the code rounds it to 3 decimals): 1000 stands for 1.0.                 *)
(***************************************************************************)
\* a in b, for two strings
IsSubstr(a, b) ==
    \E k \in 0..(Len(b) - Len(a)) : SubSeq(b, k + 1, k + Len(a)) = a

\* \w: everything that is neither white space nor punctuation
IsWordChar(c) == c \notin SpaceChars /\ c \notin PunctChars

\* re.findall(r'\w+', text): the maximal runs of word characters, in order
RECURSIVE FindallWords(_, _)
FindallWords(text, cur) ==
    IF text = <<>> THEN (IF cur = <<>> THEN <<>> ELSE <<cur>>)
    ELSE IF IsWordChar(Head(text)) THEN FindallWords(Tail(text), Append(cur, Head(text)))
    ELSE (IF cur = <<>> THEN <<>> ELSE <<cur>>) \o FindallWords(Tail(text), <<>>)

\* normalize._count_bigram_matches
_count_bigram_matches(topic_words, text) ==
    IF Len(topic_words) < 2 THEN 0
    ELSE LET text_lower == MapLower(text) IN
         Cardinality({i \in 1..(Len(topic_words) - 1) :
                        IsSubstr(topic_words[i] \o <<" ">> \o topic_words[i + 1], text_lower)})

\* normalize.compute_keyword_relevance, the score only.  The quotients are
\* exact for topics of one or two words, the topics of this model, and the
\* sum is then a multiple of 0.005, which round(score, 3) leaves alone.
compute_keyword_relevance(topic, title, abstract) ==
    IF topic = <<>> THEN 0
    ELSE
    LET topic_lower == MapLower(topic)
        title_lower == MapLower(title)
        abstract_lower == MapLower(abstract)
        topic_words == FindallWords(topic_lower, <<>>)
        n == Len(topic_words)
    IN  IF n = 0 THEN 0
        ELSE
        LET phrase == IF IsSubstr(topic_lower, title_lower) THEN 400
                      ELSE IF IsSubstr(topic_lower, abstract_lower) THEN 200
                      ELSE 0
            title_word_matches ==
                Cardinality({k \in 1..n : IsSubstr(topic_words[k], title_lower)})
            abstract_word_matches ==
                Cardinality({k \in 1..n : IsSubstr(topic_words[k], abstract_lower)})
            word_score == (600 * title_word_matches) \div n
                          + (300 * abstract_word_matches) \div n
            bigram_bonus ==
                IF n >= 2
                THEN LET max_bigrams == n - 1
                         title_bigrams == _count_bigram_matches(topic_words, title_lower)
                         abstract_bigrams == _count_bigram_matches(topic_words, abstract_lower)
                     IN Max2((150 * title_bigrams) \div max_bigrams,
                             (75 * abstract_bigrams) \div max_bigrams)
                ELSE 0
            all_bonus == IF title_word_matches = n THEN 100
                         ELSE IF abstract_word_matches = n THEN 50
                         ELSE 0
            score == phrase + word_score + bigram_bonus + all_bonus
        IN Min2(1000, Max2(0, score))

(***************************************************************************)
(* The adapters' row construction: what search_* does with one upstream    *)
(* record (a work).  Paging and transport are modelled separately.         *)
(***************************************************************************)
\* one upstream record, with the fields the adapters and normalizers read
Work(nid, title, abstract, doi, published_doi, date, journal, cited_by_count, author_count, downloads, likes, primary_category) ==
    [nid |-> nid, title |-> title, abstract |-> abstract, doi |-> doi,
     published_doi |-> published_doi, date |-> date, journal |-> journal,
     cited_by_count |-> cited_by_count, author_count |-> author_count,
     downloads |-> downloads, likes |-> likes, primary_category |-> primary_category]

\* DEPTH_LIMITS['quick'] of openalex.py and semanticscholar.py
max_results == 30

\* the keyword-relevance floor of each adapter, in thousandths; arXiv,
\* PubMed and the HuggingFace model search keep every record
RELEVANCE_THRESHOLD == 300
ADAPTER_THRESHOLD == 100

\* position_boost = max(0.0, 0.1 * (1 - global_rank / max_results))
position_boost(global_rank) ==
    Max2(0, (100 * (max_results - global_rank)) \div max_results)

\* whether search_<src> appends the record to its results
AdapterKeeps(src, topic, work) ==
    LET rel == compute_keyword_relevance(topic, work.title, work.abstract) IN
    CASE src \in {"openalex", "biorxiv", "medrxiv"} -> rel > ADAPTER_THRESHOLD
      [] src = "semanticscholar" -> rel > RELEVANCE_THRESHOLD
      [] src = "huggingface" -> work.date # NoneInt /\ work.date >= from_date
      [] OTHER -> TRUE

\* whether the loop body of search_<src> raises on the record: HuggingFace
\* evaluates item.get('date', '') >= from_date, a TypeError when the stored
\* date is None
AdapterRaises(src, work) == src = "huggingface" /\ work.date = NoneInt
TypeErrorNoneDate == "TypeError: '>=' not supported between instances of 'NoneType' and 'str'"

\* the 'relevance' search_<src> stores in the row
AdapterRelevance(src, topic, work, global_rank) ==
    LET rel == compute_keyword_relevance(topic, work.title, work.abstract) IN
    IF src \in {"openalex", "semanticscholar"}
    THEN Min2(1000, rel + position_boost(global_rank))
    ELSE rel

\* the row search_<src> builds from the record found at global_rank
AdapterRow(src, topic, work, global_rank) ==
    Row(src, work.nid, work.title, work.doi, work.published_doi, work.date,
        AdapterRelevance(src, topic, work, global_rank), work.journal,
        work.cited_by_count, work.author_count, work.downloads, work.likes,
        work.primary_category)

(***************************************************************************)
(* normalize.filter_by_date_range, dates.recency_score                     *)
(***************************************************************************)
\* normalize.filter_by_date_range: an item without a date is appended unless
\* require_date; a dated one unless date < from_date or date > to_date
filter_by_date_rangeMut(items, from, to, require_date) ==
    SelectSeq(items, LAMBDA item :
        IF item.date = NoneInt THEN ~require_date
        ELSE ~(item.date < from) /\ ~(item.date >= to))
filter_by_date_range(items, from, to, require_date) ==
    SelectSeq(items, LAMBDA item :
        IF item.date = NoneInt THEN ~require_date
        ELSE ~(item.date < from) /\ ~(item.date > to))

\* dates.recency_score: 100 for today, falling linearly to 0 at 30 days, 0
\* without a date; today is to_date
RECENCY_DAYS == 30
recency_score(date) ==
    IF date = NoneInt THEN 0
    ELSE LET age == to_date - date IN
         IF age < 0 THEN 100
         ELSE IF age >= RECENCY_DAYS THEN 0
         ELSE (100 * (RECENCY_DAYS - age)) \div RECENCY_DAYS

(***************************************************************************)
(* score.py.  Sub-scores are integers 0..100; the weighted sum is kept in  *)
(* hundredths, which is exact for the weights 0.50/0.25/0.25 and, on the    *)
(* sub-scores of this model, for 0.45/0.25/0.30 as well.                    *)
(***************************************************************************)
\* int(x / d) for an integer x: Python's int() truncates toward zero
TruncDiv(x, d) == IF x >= 0 THEN x \div d ELSE 0 - ((0 - x) \div d)

\* math.log1p(x) in millionths, for the counts of the model
Log1pMicro(x) ==
    CASE x = 0 -> 0
      [] x = 1 -> 693147
      [] x = 500 -> 6216606
      [] x = 1000 -> 6908754
      [] x = 100000 -> 11512935

\* int(log1p_safe(x) * k)
Log1pTimes(x, k) == IF x = NoneInt \/ x < 0 THEN 0 ELSE (Log1pMicro(x) * k) \div 1000000

\* any(primary_category.startswith(cat) for cat in popular_categories), on
\* the categories of the model
IsPopularCategory(primary_category) == primary_category \in {"cs.LG", "q-bio.GN"}

compute_biorxiv_academic(engagement) ==
    IF engagement = NoEngagement THEN 20
    ELSE Min2(100, 20 + (IF Truthy(engagement.published_doi) THEN 50 ELSE 0)
                      + (IF engagement.author_count >= 5 THEN 10 ELSE 0))

compute_arxiv_academic(engagement, primary_category) ==
    Min2(100, 30 + (IF IsPopularCategory(primary_category) THEN 10 ELSE 0)
                 + (IF engagement # NoEngagement /\ engagement.author_count >= 5
                    THEN 10 ELSE 0))

compute_pubmed_academic(engagement) ==
    IF engagement = NoEngagement THEN 40
    ELSE Min2(100, 40 + (IF Truthy(engagement.published_journal) THEN 20 ELSE 0)
                      + (IF engagement.citation_count > 0
                         THEN Log1pTimes(engagement.citation_count, 15) ELSE 0))

compute_huggingface_academic(engagement) ==
    IF engagement = NoEngagement THEN 10
    ELSE Min2(100, 10 + Log1pTimes(engagement.downloads, 8)
                      + Log1pTimes(engagement.likes, 12))

compute_openalex_academic(engagement) ==
    IF engagement = NoEngagement THEN 30
    ELSE Min2(100, 30 + (IF Truthy(engagement.published_journal) THEN 20 ELSE 0)
                      + (IF engagement.citation_count > 0
                         THEN Log1pTimes(engagement.citation_count, 12) ELSE 0)
                      + (IF engagement.author_count >= 5 THEN 10 ELSE 0))

compute_semanticscholar_academic(engagement) ==
    IF engagement = NoEngagement THEN 30
    ELSE Min2(100, 30 + (IF Truthy(engagement.published_journal) THEN 20 ELSE 0)
                      + (IF engagement.citation_count > 0
                         THEN Log1pTimes(engagement.citation_count, 12) ELSE 0)
                      + (IF engagement.author_count >= 5 THEN 10 ELSE 0))

\* the academic sub-score score_<class>_items computes for the item
AcademicScore(item) ==
    CASE item.cls = "BiorxivItem" -> compute_biorxiv_academic(item.engagement)
      [] item.cls = "ArxivItem" -> compute_arxiv_academic(item.engagement, item.primary_category)
      [] item.cls = "PubmedItem" -> compute_pubmed_academic(item.engagement)
      [] item.cls = "HuggingFaceItem" -> compute_huggingface_academic(item.engagement)
      [] item.cls = "OpenAlexItem" -> compute_openalex_academic(item.engagement)
      [] item.cls = "SemanticScholarItem" -> compute_semanticscholar_academic(item.engagement)

\* the weights (relevance, recency, academic), in hundredths
PAPER_WEIGHTS == <<50, 25, 25>>
HF_WEIGHTS == <<45, 25, 30>>
Weights(item) == IF item.cls = "HuggingFaceItem" THEN HF_WEIGHTS ELSE PAPER_WEIGHTS

LOW_CONFIDENCE_PENALTY == 10

\* max(0, min(100, int(overall)))
ClampScoreMut(overall100) == Min2(100, TruncDiv(overall100, 100))
ClampScore(overall100) == Max2(0, Min2(100, TruncDiv(overall100, 100)))

\* overall = w_rel * rel_score + w_rec * rec_score + w_acad * acad_score, less
\* 10 when date_confidence is "low"; item.score = max(0, min(100, int(overall)))
OverallScore(w, rel_score, rec_score, acad_score, date_confidence) ==
    ClampScore(w[1] * rel_score + w[2] * rec_score + w[3] * acad_score
               - (IF date_confidence = "low" THEN 100 * LOW_CONFIDENCE_PENALTY ELSE 0))

\* the body of the loop of score_<class>_items
ScoreItem(item) ==
    LET rel_score == item.relevance \div 10      \* int(item.relevance * 100)
        rec_score == recency_score(item.date)
        acad_score == AcademicScore(item)
    IN [item EXCEPT !.subs = SubScores(rel_score, rec_score, acad_score),
                    !.score = OverallScore(Weights(item), rel_score, rec_score,
                                           acad_score, item.date_confidence)]

score_items(items) == [k \in 1..Len(items) |-> ScoreItem(items[k])]

\* score.sort_items: sorted() by (-score, -int(date or "0000-00-00"), title),
\* stable.  Dates are day numbers, a missing date sorts as day 0.
DateKey(date) == IF date = NoneInt THEN 0 ELSE date

\* ord(c) for the characters of the model
CharOrd(c) ==
    CASE c = " " -> 32 [] c = "!" -> 33 [] c = "-" -> 45
      [] c = "A" -> 65 [] c = "B" -> 66 [] c = "G" -> 71 [] c = "M" -> 77
      [] c = "a" -> 97 [] c = "b" -> 98 [] c = "e" -> 101 [] c = "g" -> 103
      [] c = "m" -> 109 [] c = "n" -> 110 [] c = "p" -> 112 [] c = "s" -> 115

\* Python's order on strings, on two titles
RECURSIVE StrLess(_, _)
StrLess(a, b) ==
    IF b = <<>> THEN FALSE
    ELSE IF a = <<>> THEN TRUE
    ELSE IF Head(a) # Head(b) THEN CharOrd(Head(a)) < CharOrd(Head(b))
    ELSE StrLess(Tail(a), Tail(b))

SortKeyLess(x, y) ==
    \/ x.score > y.score
    \/ x.score = y.score /\ DateKey(x.date) > DateKey(y.date)
    \/ x.score = y.score /\ DateKey(x.date) = DateKey(y.date) /\ StrLess(x.title, y.title)

\* insert x after the elements of the sorted list that are not greater
RECURSIVE InsertSorted(_, _)
InsertSorted(sorted, x) ==
    IF sorted = <<>> THEN <<x>>
    ELSE IF SortKeyLess(x, Head(sorted)) THEN <<x>> \o sorted
    ELSE <<Head(sorted)>> \o InsertSorted(Tail(sorted), x)

RECURSIVE sort_items(_)
sort_items(items) ==
    IF items = <<>> THEN <<>>
    ELSE InsertSorted(sort_items(SubSeq(items, 1, Len(items) - 1)), items[Len(items)])

(***************************************************************************)
(* dedupe.dedupe_within_source                                             *)
(***************************************************************************)
\* the inner loop for a fixed i, from position j; to_remove is a set of indices
RECURSIVE WithinInner(_, _, _, _)
WithinInner(items, i, j, to_remove) ==
    IF j > Len(items) THEN to_remove
    ELSE IF j \in to_remove THEN WithinInner(items, i, j + 1, to_remove)
    ELSE IF SimilarTitles(_get_title(items[i]), _get_title(items[j]))
         THEN IF items[i].score >= items[j].score
              THEN WithinInner(items, i, j + 1, to_remove \cup {j})
              ELSE WithinInner(items, i, j + 1, to_remove \cup {i})
         ELSE WithinInner(items, i, j + 1, to_remove)

RECURSIVE WithinOuter(_, _, _)
WithinOuter(items, i, to_remove) ==
    IF i > Len(items) THEN to_remove
    ELSE IF i \in to_remove THEN WithinOuter(items, i + 1, to_remove)
    ELSE WithinOuter(items, i + 1, WithinInner(items, i, i + 1, to_remove))

\* a variant that returns the kept items last-first
dedupe_within_sourceMut(items) ==
    LET kept == SelectIdx(items, (1..Len(items)) \ WithinOuter(items, 1, {}), 1)
    IN  [k \in 1..Len(kept) |-> kept[Len(kept) + 1 - k]]

dedupe_within_source(items) ==
    IF Len(items) <= 1 THEN items
    ELSE SelectIdx(items, (1..Len(items)) \ WithinOuter(items, 1, {}), 1)

(***************************************************************************)
(* research30.main: the processing phase, from run_research's results to   *)
(* the report                                                              *)
(***************************************************************************)
\* the order in which main() concatenates the per-source lists
SourceOrder ==
    <<"openalex", "semanticscholar", "biorxiv", "medrxiv", "arxiv", "pubmed", "huggingface">>

\* determine_sources: the source sets a run can have
SourceSets ==
    {{"openalex", "semanticscholar", "arxiv", "pubmed", "huggingface"},
     {"openalex", "arxiv"}}
    \cup {{s} : s \in SourceNames}

\* a result of run_research for one source: (items, error)
RawResult(items, error) == [items |-> items, error |-> error]

\* raw_results.get(src, ([], None))[0]
RawItemsMut(raw_results, src) ==
    IF raw_results[src].error # None THEN <<>> ELSE raw_results[src].items
RawItems(raw_results, src) == raw_results[src].items

\* normalize, date filter, score, sort and within-source dedup of one source
SourceItems(raw_results, src) ==
    dedupe_within_source(
        sort_items(
            score_items(
                filter_by_date_range(NormalizeRows(src, RawItems(raw_results, src)),
                                     from_date, to_date, FALSE))))

\* all_items = openalex_items + s2_items + biorxiv_items + ... + hf_items
RECURSIVE ConcatSources(_, _)
ConcatSources(raw_results, k) ==
    IF k > Len(SourceOrder) THEN <<>>
    ELSE SourceItems(raw_results, SourceOrder[k]) \o ConcatSources(raw_results, k + 1)

AllItems(raw_results) == ConcatSources(raw_results, 1)

\* [i for i in deduped_all if isinstance(i, <class of src>)]
IsOfSource(item, src) ==
    CASE src = "openalex" -> item.cls = "OpenAlexItem"
      [] src = "semanticscholar" -> item.cls = "SemanticScholarItem"
      [] src = "biorxiv" -> item.cls = "BiorxivItem" /\ item.source = "biorxiv"
      [] src = "medrxiv" -> item.cls = "BiorxivItem" /\ item.source = "medrxiv"
      [] src = "arxiv" -> item.cls = "ArxivItem"
      [] src = "pubmed" -> item.cls = "PubmedItem"
      [] src = "huggingface" -> item.cls = "HuggingFaceItem"

\* if err: setattr(report, f'{src}_error', err)
ReportError(raw_results, src) ==
    IF raw_results[src].error # None /\ raw_results[src].error # ""
    THEN raw_results[src].error ELSE None

\* the report main() builds: the per-source lists and the per-source errors
BuildReport(raw_results) ==
    LET deduped_all == dedupe_cross_source(AllItems(raw_results)) IN
    [items |-> [src \in SourceNames |->
                   SelectSeq(deduped_all, LAMBDA i : IsOfSource(i, src))],
     errors |-> [src \in SourceNames |-> ReportError(raw_results, src)]]

(***************************************************************************)
(* schema.py: Report.to_dict and Report.from_dict.  A dict is a record; a  *)
(* key that to_dict does not write is a key the record lacks, read back    *)
(* with dict.get's default.                                                *)
(***************************************************************************)
\* the lists and *_error fields of the Report dataclass, which are the keys
\* to_dict writes and from_dict reads
ReportSources == {"biorxiv", "medrxiv", "arxiv", "pubmed", "huggingface", "openalex"}

\* the item class from_dict builds for each list
ReportItemClass ==
    [biorxiv |-> "BiorxivItem", medrxiv |-> "BiorxivItem", arxiv |-> "ArxivItem",
     pubmed |-> "PubmedItem", huggingface |-> "HuggingFaceItem", openalex |-> "OpenAlexItem"]

\* AcademicEngagement.to_dict: the fields that are not None, `d if d else
\* None`; the record keeps a None for a key the dict lacks
EngagementAllNone(e) ==
    /\ e.published_doi = None
    /\ e.published_journal = None
    /\ e.citation_count = NoneInt
    /\ e.downloads = NoneInt
    /\ e.likes = NoneInt
    /\ e.author_count = NoneInt

EngagementToDict(e) == IF EngagementAllNone(e) THEN NoEngagement ELSE e

\* <Item>.to_dict: 'engagement': self.engagement.to_dict() if self.engagement
\* else None; the class is not written
ItemToDict(item) ==
    [source |-> item.source, id |-> item.id, title |-> item.title, doi |-> item.doi,
     preprint_doi |-> item.preprint_doi, primary_category |-> item.primary_category,
     date |-> item.date, date_confidence |-> item.date_confidence,
     engagement |-> IF item.engagement = NoEngagement THEN NoEngagement
                    ELSE EngagementToDict(item.engagement),
     relevance |-> item.relevance, subs |-> item.subs, score |-> item.score]

\* from_dict._parse_engagement: `if not raw: return None`, else
\* AcademicEngagement(**raw)
_parse_engagement(raw) == IF raw = NoEngagement THEN NoEngagement ELSE raw

\* from_dict: one <Item>(...) per row of a list
ItemFromDict(cls, r) ==
    [cls |-> cls, source |-> r.source, id |-> r.id, title |-> r.title, doi |-> r.doi,
     preprint_doi |-> r.preprint_doi, primary_category |-> r.primary_category,
     date |-> r.date, date_confidence |-> r.date_confidence,
     engagement |-> _parse_engagement(r.engagement),
     relevance |-> r.relevance, subs |-> r.subs, score |-> r.score]

\* Report.to_dict: the six lists, and `if err: d[f'{src}_error'] = err`
ReportToDict(report) ==
    [lists |-> [src \in ReportSources |->
                   [k \in 1..Len(report.items[src]) |-> ItemToDict(report.items[src][k])]],
     errors |-> [src \in {x \in ReportSources : Truthy(report.errors[x])} |->
                   report.errors[src]]]

\* Report.from_dict: data.get(src, []) and data.get(f'{src}_error'); a field
\* the dataclass lacks is not set
ReportFromDict(data) ==
    [items |-> [src \in SourceNames |->
                   IF src \in DOMAIN data.lists
                   THEN [k \in 1..Len(data.lists[src]) |->
                            ItemFromDict(ReportItemClass[src], data.lists[src][k])]
                   ELSE <<>>],
     errors |-> [src \in SourceNames |->
                   IF src \in DOMAIN data.errors THEN data.errors[src] ELSE None]]

(***************************************************************************)
(* The run of main(): the adapters of the active sources return their      *)
(* (items, error), then the processing phase builds the report             *)
(***************************************************************************)
MaxRows == 3
MaxErrors == 2

\* the topics of the model: "gene map", "gene ab"
TopicGeneMap == <<"g", "e", "n", "e", " ", "m", "a", "p">>
TopicGeneAb == <<"g", "e", "n", "e", " ", "a", "b">>
Topics == {TopicGeneMap, TopicGeneAb}

\* the upstream records of the model.  WorkUndated and WorkFresh share the
\* native id "n1" and have dissimilar titles; WorkOld is dated the day
\* before from_date, WorkCited today.
WorkCited ==
    Work("n2", TitleGeneMaps, <<>>, DoiXLower, "", to_date, "Nature", 1000, 5, 100000, 500, "cs.LG")
WorkUndated ==
    Work("n1", TitleShort, <<>>, None, "", NoneInt, "", 0, 1, 0, 0, "")
WorkOld ==
    Work("n3", TitleGeneMap, TopicGeneAb, None, "", from_date - 1, "", 0, 1, 0, 0, "")
WorkFresh ==
    Work("n1", TitleGeneMapsAb, <<>>, None, DoiXLower, from_date, "", 1, 1, 1, 1, "")
Works == {WorkCited, WorkUndated, WorkOld, WorkFresh}

\* the ranks at which an upstream record is found
Ranks == {0, 15, 45}

ErrorStrings == {"HTTP 500: Internal Server Error"}

NoReport == [items |-> [src \in SourceNames |-> <<>>], errors |-> [src \in SourceNames |-> None]]
NoResults == [src \in SourceNames |-> RawResult(<<>>, None)]

RECURSIVE SumLens(_, _)
SumLens(raw_results, k) ==
    IF k > Len(SourceOrder) THEN 0
    ELSE Len(raw_results[SourceOrder[k]].items) + SumLens(raw_results, k + 1)

PipeIdle ==
    /\ p_pc = "idle"
    /\ p_topic = <<>>
    /\ p_sources = {}
    /\ p_cur = 0
    /\ p_rank = 0
    /\ p_raw = NoResults
    /\ p_report = NoReport
    /\ p_saved = ReportToDict(NoReport)

PipeInit ==
    /\ p_pc = "fetch"
    /\ p_topic \in Topics
    /\ p_sources \in SourceSets
    /\ p_cur = 1
    /\ p_rank = 0
    /\ p_raw = NoResults
    /\ p_report = NoReport
    /\ p_saved = ReportToDict(NoReport)

PipeFetching == p_pc = "fetch" /\ p_cur <= Len(SourceOrder)

\* the adapter of the current source finds a record at global_rank and keeps
\* it; only OpenAlex and Semantic Scholar read the rank
Ranked(src) == src \in {"openalex", "semanticscholar"}

PipeAdapterRow(work, global_rank) ==
    /\ PipeFetching
    /\ LET src == SourceOrder[p_cur] IN
       /\ src \in p_sources
       /\ SumLens(p_raw, 1) < MaxRows
       /\ IF Ranked(src) THEN global_rank >= p_rank ELSE global_rank = 0
       /\ AdapterKeeps(src, p_topic, work)
       /\ p_raw' = [p_raw EXCEPT ![src].items =
                       Append(@, AdapterRow(src, p_topic, work, global_rank))]
       /\ p_rank' = IF Ranked(src) THEN global_rank + 1 ELSE 0
    /\ UNCHANGED <<p_pc, p_topic, p_sources, p_cur, p_report, p_saved>>

\* the adapter of the current source returns, with an error or with None;
\* a source that is not active has no entry
PipeAdapterReturn(error) ==
    /\ PipeFetching
    /\ LET src == SourceOrder[p_cur] IN
       /\ src \notin p_sources => error = None
       /\ error # None =>
            Cardinality({s \in SourceNames : p_raw[s].error # None}) < MaxErrors
       /\ p_raw' = [p_raw EXCEPT ![src].error = error]
    /\ p_cur' = p_cur + 1
    /\ p_rank' = 0
    /\ UNCHANGED <<p_pc, p_topic, p_sources, p_report, p_saved>>

\* the search function of the current source raises on a record;
\* run_research stores ([], "Type: msg") for the source
PipeAdapterRaise(work) ==
    /\ PipeFetching
    /\ LET src == SourceOrder[p_cur] IN
       /\ src \in p_sources
       /\ AdapterRaises(src, work)
       /\ Cardinality({s \in SourceNames : p_raw[s].error # None}) < MaxErrors
       /\ p_raw' = [p_raw EXCEPT ![src] = RawResult(<<>>, TypeErrorNoneDate)]
    /\ p_cur' = p_cur + 1
    /\ p_rank' = 0
    /\ UNCHANGED <<p_pc, p_topic, p_sources, p_report, p_saved>>

\* main(): normalize, date filter, score, sort, dedupe, build the report,
\* save report.to_dict() to the cache
PipeProcess ==
    /\ p_pc = "fetch"
    /\ p_cur > Len(SourceOrder)
    /\ p_pc' = "done"
    /\ p_report' = BuildReport(p_raw)
    /\ p_saved' = ReportToDict(BuildReport(p_raw))
    /\ UNCHANGED <<p_topic, p_sources, p_cur, p_rank, p_raw>>

PipeStep ==
    \/ \E work \in Works, global_rank \in Ranks : PipeAdapterRow(work, global_rank)
    \/ \E error \in ErrorStrings \cup {None} : PipeAdapterReturn(error)
    \/ \E work \in Works : PipeAdapterRaise(work)
    \/ PipeProcess

(***************************************************************************)
(* research30.run_research: the adapters run on a thread pool, the main    *)
(* thread collects their futures as they complete                          *)
(***************************************************************************)
max_workers == 5

\* an exception instance: type(e).__name__ and str(e)
Exc(type, msg) == [type |-> type, msg |-> msg]
Exceptions == {Exc("TypeError", "'>=' not supported"), Exc("HTTPError", "HTTP 500")}

\* what a search function hands back: a pair (items, error), or an exception
Returned(items, error) == [kind |-> "returned", items |-> items, error |-> error, exc |-> Exc("", "")]
Raised(exc) == [kind |-> "raised", items |-> <<>>, error |-> None, exc |-> exc]
NoOutcome == [kind |-> "none", items |-> <<>>, error |-> None, exc |-> Exc("", "")]

\* the adapter results of the model: full, partial with an error, empty with an error
AdapterReturns ==
    {Returned(<<"row">>, None), Returned(<<"row">>, "HTTP 500"), Returned(<<>>, "HTTP 500")}

\* f"{type(e).__name__}: {e}"
FormatExceptionMut(exc) == <<exc.msg>>
FormatException(exc) == <<exc.type, ": ", exc.msg>>

\* the body of the loop over as_completed: the entry stored for a future
ResultEntry(outcome) ==
    IF outcome.kind = "returned" THEN <<outcome.items, outcome.error>>
    ELSE <<<<>>, FormatException(outcome.exc)>>

\* results = {}
EmptyResults == [s \in {} |-> <<<<>>, None>>]

\* results[source] = entry
SetResult(results, source, entry) ==
    [s \in DOMAIN results \cup {source} |-> IF s = source THEN entry ELSE results[s]]

\* search_funcs in insertion order: the active sources in the order of the ifs
SearchFuncs(sources_set) == SelectSeq(SourceOrder, LAMBDA s : s \in sources_set)

RunIdle ==
    /\ r_pc = "idle"
    /\ r_sources = {}
    /\ r_submitted = 0
    /\ r_future = [s \in SourceNames |-> "none"]
    /\ r_outcome = [s \in SourceNames |-> NoOutcome]
    /\ r_results = EmptyResults

RunInit ==
    /\ r_pc = "submit"
    /\ r_sources \in SourceSets
    /\ r_submitted = 0
    /\ r_future = [s \in SourceNames |-> "none"]
    /\ r_outcome = [s \in SourceNames |-> NoOutcome]
    /\ r_results = EmptyResults

\* futures[executor.submit(func)] = source, for the next source
RunSubmit ==
    /\ r_pc = "submit"
    /\ r_submitted < Len(SearchFuncs(r_sources))
    /\ r_submitted' = r_submitted + 1
    /\ r_future' = [r_future EXCEPT ![SearchFuncs(r_sources)[r_submitted + 1]] = "pending"]
    /\ UNCHANGED <<r_pc, r_sources, r_outcome, r_results>>

\* the loop over search_funcs ends; the main thread enters as_completed
RunAllSubmitted ==
    /\ r_pc = "submit"
    /\ r_submitted = Len(SearchFuncs(r_sources))
    /\ r_pc' = "collect"
    /\ UNCHANGED <<r_sources, r_submitted, r_future, r_outcome, r_results>>

\* a free worker thread takes the oldest pending work item
RunWorkerStart(source) ==
    /\ r_future[source] = "pending"
    /\ Cardinality({s \in SourceNames : r_future[s] = "running"}) < max_workers
    /\ \A k \in 1..r_submitted :
          LET s == SearchFuncs(r_sources)[k] IN
          r_future[s] = "pending" => \E j \in 1..k : SearchFuncs(r_sources)[j] = source
    /\ r_future' = [r_future EXCEPT ![source] = "running"]
    /\ UNCHANGED <<r_pc, r_sources, r_submitted, r_outcome, r_results>>

\* the search function of source returns or raises on its worker thread
RunAdapterEnds(source, outcome) ==
    /\ r_future[source] = "running"
    /\ r_future' = [r_future EXCEPT ![source] = "finished"]
    /\ r_outcome' = [r_outcome EXCEPT ![source] = outcome]
    /\ UNCHANGED <<r_pc, r_sources, r_submitted, r_results>>

\* as_completed yields a finished future; the main thread stores its entry
RunCollect(source) ==
    /\ r_pc = "collect"
    /\ r_future[source] = "finished"
    /\ r_future' = [r_future EXCEPT ![source] = "collected"]
    /\ r_results' = SetResult(r_results, source, ResultEntry(r_outcome[source]))
    /\ UNCHANGED <<r_pc, r_sources, r_submitted, r_outcome>>

\* as_completed is exhausted, the pool shuts down, run_research returns
RunReturn ==
    /\ r_pc = "collect"
    /\ \A s \in r_sources : r_future[s] = "collected"
    /\ r_pc' = "done"
    /\ UNCHANGED <<r_sources, r_submitted, r_future, r_outcome, r_results>>

RunStep ==
    \/ RunSubmit
    \/ RunAllSubmitted
    \/ \E source \in SourceNames : RunWorkerStart(source)
    \/ \E source \in SourceNames, outcome \in AdapterReturns \cup {Raised(e) : e \in Exceptions} :
          RunAdapterEnds(source, outcome)
    \/ \E source \in SourceNames : RunCollect(source)
    \/ RunReturn

(***************************************************************************)
(* openalex.search_openalex, semanticscholar.search_semanticscholar and    *)
(* biorxiv.search_preprint_server: the page loops                          *)
(***************************************************************************)

PagedAdapters == {"openalex", "semanticscholar", "biorxiv", "medrxiv"}
Preprint == {"biorxiv", "medrxiv"}

MAX_PAGES == [openalex |-> 5, semanticscholar |-> 3, biorxiv |-> 30, medrxiv |-> 30]
PAGE_SIZE == 100
PARALLEL_WORKERS == 5

\* DEPTH_LIMITS['quick'] of the preprint servers; max_results is that of
\* OpenAlex and Semantic Scholar
max_relevant == 20
MaxKept(adapter) == IF adapter \in Preprint THEN max_relevant ELSE max_results

\* an error value: None, or the text of the message
ErrorNone == [is_none |-> TRUE, text |-> <<>>]
ErrorText(text) == [is_none |-> FALSE, text |-> text]

\* what one page request meets: a page of which `kept` records pass the
\* relevance floor, a page without records, http.HTTPError once the retries
\* are used up, or another exception (a body that is not a JSON object)
PageOk(kept, has_next) == [kind |-> "ok", kept |-> kept, has_next |-> has_next, exc |-> Exc("", "")]
PageEmpty == [kind |-> "empty", kept |-> 0, has_next |-> FALSE, exc |-> Exc("", "")]
PageHTTPError == [kind |-> "httperror", kept |-> 0, has_next |-> FALSE, exc |-> Exc("HTTPError", "HTTP 500: Internal Server Error")]
PageException == [kind |-> "exception", kept |-> 0, has_next |-> FALSE, exc |-> Exc("AttributeError", "'list' object has no attribute 'get'")]

Kepts == {0, 10, 30}
Totals == {0, 100, 250, 350}

\* Semantic Scholar reads data.get('next'); the other two never look at it
PageResponses(adapter) ==
    {PageOk(k, n) : k \in Kepts, n \in (IF adapter = "semanticscholar" THEN BOOLEAN ELSE {TRUE})}
        \cup {PageEmpty, PageHTTPError, PageException}

\* results: the records kept, as (offset of the page, number kept) in the
\* order the pages were appended
Kept(offset, n) == [offset |-> offset, n |-> n]

RECURSIVE CountKept(_)
CountKept(results) ==
    IF results = <<>> THEN 0 ELSE Head(results).n + CountKept(Tail(results))

\* results[:n]
RECURSIVE Slice(_, _)
Slice(results, n) ==
    IF results = <<>> \/ n <= 0 THEN <<>>
    ELSE IF Head(results).n = 0 THEN Slice(Tail(results), n)
    ELSE <<Kept(Head(results).offset, Min2(n, Head(results).n))>>
            \o Slice(Tail(results), n - Head(results).n)

\* str(e) of an http.HTTPError
StrException(exc) == <<exc.msg>>

RECURSIVE remaining_cursorsMut(_, _, _, _)
remaining_cursorsMut(server, c, total, sofar) ==
    IF c < total /\ Len(sofar) < MAX_PAGES[server]
    THEN remaining_cursorsMut(server, c + 100, total, Append(sofar, c))
    ELSE sofar

\* the cursors of the remaining pages, capped at MAX_PAGES - 1
RECURSIVE remaining_cursors(_, _, _, _)
remaining_cursors(server, c, total, sofar) ==
    IF c < total /\ Len(sofar) < MAX_PAGES[server] - 1
    THEN remaining_cursors(server, c + 100, total, Append(sofar, c))
    ELSE sofar

PageIdle ==
    /\ a_pc = "idle"
    /\ a_adapter = "openalex"
    /\ a_total = 0
    /\ a_page = 0
    /\ a_pending = {}
    /\ a_log = <<>>
    /\ a_results = <<>>
    /\ a_return = [items |-> <<>>, error |-> ErrorNone]

PageInit ==
    /\ a_pc = "loop"
    /\ a_adapter \in PagedAdapters
    /\ a_total \in Totals
    /\ a_page = 0
    /\ a_pending = {}
    /\ a_log = <<>>
    /\ a_results = <<>>
    /\ a_return = [items |-> <<>>, error |-> ErrorNone]

\* return items[:max], error
PageReturn(items, error) ==
    /\ a_pc' = "returned"
    /\ a_return' = [items |-> Slice(items, MaxKept(a_adapter)), error |-> error]

\* one pass of the page loop of OpenAlex or Semantic Scholar, with the
\* return that follows when the loop ends
PageFetch(resp) ==
    /\ a_pc = "loop"
    /\ a_adapter \in {"openalex", "semanticscholar"}
    /\ a_page < MAX_PAGES[a_adapter]
    /\ LET offset == a_page * PAGE_SIZE
           results == IF resp.kind = "ok" THEN Append(a_results, Kept(offset, resp.kept))
                      ELSE a_results
           more == /\ resp.kind = "ok"
                   /\ CountKept(results) < max_results
                   /\ ~(a_adapter = "semanticscholar" /\ ~resp.has_next)
                   /\ offset + PAGE_SIZE < a_total
                   /\ a_page + 1 < MAX_PAGES[a_adapter]
       IN  /\ a_log' = Append(a_log, [offset |-> offset, resp |-> resp])
           /\ a_page' = a_page + 1
           /\ a_results' = results
           /\ CASE resp.kind = "httperror" /\ a_page = 0 ->
                       /\ a_pc' = "returned"
                       /\ a_return' = [items |-> <<>>, error |-> ErrorText(StrException(resp.exc))]
                [] resp.kind = "httperror" /\ a_page > 0 -> PageReturn(results, ErrorNone)
                [] resp.kind = "exception" ->
                       PageReturn(results, ErrorText(FormatException(resp.exc)))
                [] resp.kind = "empty" -> PageReturn(results, ErrorNone)
                [] resp.kind = "ok" /\ ~more -> PageReturn(results, ErrorNone)
                [] resp.kind = "ok" /\ more -> UNCHANGED <<a_pc, a_return>>
    /\ UNCHANGED <<a_adapter, a_total, a_pending>>

\* search_preprint_server up to the fan-out: the first page, fetched alone
PageFirst(resp) ==
    /\ a_pc = "loop"
    /\ a_adapter \in Preprint
    /\ LET results == IF resp.kind = "ok" THEN <<Kept(0, resp.kept)>> ELSE <<>>
           count == PAGE_SIZE
           cursors == remaining_cursors(a_adapter, count, a_total, <<>>)
           fan_out == /\ resp.kind = "ok"
                      /\ resp.kept < max_relevant
                      /\ count < a_total
                      /\ cursors # <<>>
       IN  /\ a_log' = Append(a_log, [offset |-> 0, resp |-> resp])
           /\ a_page' = 1
           /\ a_results' = results
           /\ CASE resp.kind = "httperror" ->
                       /\ a_pc' = "returned"
                       /\ a_return' = [items |-> <<>>, error |-> ErrorText(StrException(resp.exc))]
                       /\ a_pending' = {}
                [] resp.kind = "exception" ->
                       /\ PageReturn(results, ErrorText(FormatException(resp.exc)))
                       /\ a_pending' = {}
                [] resp.kind = "empty" ->
                       /\ a_pc' = "returned"
                       /\ a_return' = [items |-> <<>>, error |-> ErrorNone]
                       /\ a_pending' = {}
                [] resp.kind = "ok" /\ ~fan_out ->
                       /\ PageReturn(results, ErrorNone)
                       /\ a_pending' = {}
                [] resp.kind = "ok" /\ fan_out ->
                       /\ a_pc' = "fanout"
                       /\ a_pending' = Range(cursors)
                       /\ UNCHANGED a_return
    /\ UNCHANGED <<a_adapter, a_total>>

\* as_completed yields the future of cursor cur; the pool runs at most
\* PARALLEL_WORKERS requests at once, oldest first
PageFuture(cur, resp) ==
    /\ a_pc = "fanout"
    /\ cur \in a_pending
    /\ Cardinality({c \in a_pending : c < cur}) < PARALLEL_WORKERS
    /\ LET results == IF resp.kind = "ok" THEN Append(a_results, Kept(cur, resp.kept))
                      ELSE a_results
           enough == resp.kind \in {"ok", "empty"} /\ CountKept(results) >= max_relevant
           pending == IF enough THEN {} ELSE a_pending \ {cur}
       IN  /\ a_log' = Append(a_log, [offset |-> cur, resp |-> resp])
           /\ a_page' = a_page + 1
           /\ a_results' = results
           /\ a_pending' = pending
           /\ IF pending = {} THEN PageReturn(results, ErrorNone)
              ELSE UNCHANGED <<a_pc, a_return>>
    /\ UNCHANGED <<a_adapter, a_total>>

PageStep ==
    \/ \E resp \in PageResponses(a_adapter) : PageFetch(resp)
    \/ \E resp \in PageResponses(a_adapter) : PageFirst(resp)
    \/ \E cur \in a_pending, resp \in PageResponses(a_adapter) : PageFuture(cur, resp)

(***************************************************************************)
(* normalize.filter_by_date_range called on its own                        *)
(***************************************************************************)

MaxFilterItems == 3

\* an item as the filter sees it: its date, and an id to tell items apart
DatedItem(id, date) == [id |-> id, date |-> date]

\* no date, the day before the range, its first day, a day inside, its last
\* day and the day after
FilterDates == {NoneInt, from_date - 1, from_date, from_date + 1, to_date, to_date + 1}

FilterIdle ==
    /\ f_pc = "idle"
    /\ f_items = <<>>
    /\ f_require_date = FALSE
    /\ f_result = <<>>

FilterInit ==
    /\ f_pc = "input"
    /\ f_items = <<>>
    /\ f_require_date \in BOOLEAN
    /\ f_result = <<>>

\* the caller builds the list it will pass
FilterAddItem(date) ==
    /\ f_pc = "input"
    /\ Len(f_items) < MaxFilterItems
    /\ f_items' = Append(f_items, DatedItem(Len(f_items) + 1, date))
    /\ UNCHANGED <<f_pc, f_require_date, f_result>>

\* filter_by_date_range(items, from_date, to_date, require_date)
FilterCall ==
    /\ f_pc = "input"
    /\ f_result' = filter_by_date_range(f_items, from_date, to_date, f_require_date)
    /\ f_pc' = "done"
    /\ UNCHANGED <<f_items, f_require_date>>

FilterStep ==
    \/ \E date \in FilterDates : FilterAddItem(date)
    \/ FilterCall

(***************************************************************************)
(* One call of search_<source>(topic, from_date, to_date, depth)           *)
(***************************************************************************)

MaxRecords == 3

\* the topics of main(), the empty topic and a topic without a word
TopicEmpty == <<>>
TopicBlank == <<" ">>
SearchTopics == Topics \cup {TopicEmpty, TopicBlank}

SearchIdle ==
    /\ s_pc = "idle"
    /\ s_src = "openalex"
    /\ s_topic = <<>>
    /\ s_seen = 0
    /\ s_items = <<>>
    /\ s_error = None

SearchInit ==
    /\ s_pc = "fetch"
    /\ s_src \in SourceNames
    /\ s_topic \in SearchTopics
    /\ s_seen = 0
    /\ s_items = <<>>
    /\ s_error = None

\* the loop body over the upstream records: the record found at rank s_seen
SearchRecord(work) ==
    /\ s_pc = "fetch"
    /\ s_seen < MaxRecords
    /\ s_seen' = s_seen + 1
    /\ IF AdapterRaises(s_src, work)
       THEN /\ s_pc' = "raised"
            /\ UNCHANGED <<s_items, s_error>>
       ELSE /\ s_items' = IF AdapterKeeps(s_src, s_topic, work)
                          THEN Append(s_items, AdapterRow(s_src, s_topic, work, s_seen))
                          ELSE s_items
            /\ UNCHANGED <<s_pc, s_error>>
    /\ UNCHANGED <<s_src, s_topic>>

\* return items, error
SearchReturn ==
    /\ s_pc = "fetch"
    /\ s_pc' = "returned"
    /\ UNCHANGED <<s_src, s_topic, s_seen, s_items, s_error>>

SearchStep ==
    \/ \E work \in Works : SearchRecord(work)
    \/ SearchReturn

(***************************************************************************)
(* score.sort_items called on a list and on a permutation of it            *)
(***************************************************************************)

MaxSortItems == 3

\* a scored item as sort_key reads it (score, date, title), and its id
ScoredItem(id, title, date, score) == [id |-> id, title |-> title, date |-> date, score |-> score]

SortItems ==
    {ScoredItem(id, title, date, score) :
        id \in {"n1", "n2"}, title \in {TitleShort, TitleGeneMap},
        date \in {NoneInt, to_date}, score \in {50, 60}}

IndexPermutations(n) == {f \in [1..n -> 1..n] : \A i, j \in 1..n : f[i] = f[j] => i = j}
Permuted(items, f) == [k \in 1..Len(items) |-> items[f[k]]]

SortIdle ==
    /\ o_pc = "idle"
    /\ o_items = <<>>
    /\ o_permuted = <<>>
    /\ o_sorted = <<>>
    /\ o_sorted_permuted = <<>>

SortInit ==
    /\ o_pc = "input"
    /\ o_items = <<>>
    /\ o_permuted = <<>>
    /\ o_sorted = <<>>
    /\ o_sorted_permuted = <<>>

\* the caller builds the list
SortAddItem(item) ==
    /\ o_pc = "input"
    /\ Len(o_items) < MaxSortItems
    /\ o_items' = Append(o_items, item)
    /\ UNCHANGED <<o_pc, o_permuted, o_sorted, o_sorted_permuted>>

\* sort_items(items) and sort_items of the permutation f of items
SortCall(f) ==
    /\ o_pc = "input"
    /\ o_permuted' = Permuted(o_items, f)
    /\ o_sorted' = sort_items(o_items)
    /\ o_sorted_permuted' = sort_items(Permuted(o_items, f))
    /\ o_pc' = "done"
    /\ UNCHANGED o_items

SortStep ==
    \/ \E item \in SortItems : SortAddItem(item)
    \/ \E f \in IndexPermutations(Len(o_items)) : SortCall(f)

(***************************************************************************)
(* run_research's dict, filled in completion order, and the report main()  *)
(* builds from it                                                          *)
(***************************************************************************)

\* a Python dict: its (key, value) entries in insertion order
DictKeys(dict) == {dict[k].key : k \in 1..Len(dict)}

\* dict[key] = value
DictSet(dict, key, value) ==
    IF key \in DictKeys(dict)
    THEN [k \in 1..Len(dict) |-> IF dict[k].key = key THEN [key |-> key, value |-> value] ELSE dict[k]]
    ELSE Append(dict, [key |-> key, value |-> value])

\* dict.get(key, default)
DictGetMut(dict, key, default) ==
    IF dict # <<>> THEN dict[1].value ELSE default
DictGet(dict, key, default) ==
    IF key \in DictKeys(dict)
    THEN (CHOOSE e \in Range(dict) : e.key = key).value
    ELSE default

\* raw_results as the processing phase reads it: raw_results.get(src, ([], None))
RawResults(dict) == [src \in SourceNames |-> DictGet(dict, src, RawResult(<<>>, None))]

\* what the search function of src can hand back in this model: one row and
\* no error, two rows and an error, or the TypeError of a record without date
MainOutcomes(src) ==
    {Returned(<<AdapterRow(src, TopicGeneMap, WorkCited, 0)>>, None),
     Returned(<<AdapterRow(src, TopicGeneMap, WorkFresh, 0),
                AdapterRow(src, TopicGeneMap, WorkCited, 1)>>, "HTTP 500: Internal Server Error"),
     Raised(Exc("TypeError", TypeErrorNoneDate))}

\* the body of the loop over as_completed, the stored pair as a record
MainEntry(outcome) ==
    IF outcome.kind = "returned" THEN RawResult(outcome.items, outcome.error)
    ELSE RawResult(<<>>, outcome.exc.msg)

MainIdle ==
    /\ m_pc = "idle"
    /\ m_sources = {}
    /\ m_outcome = [s \in SourceNames |-> NoOutcome]
    /\ m_results = <<>>
    /\ m_report = NoReport

MainInit ==
    /\ m_pc = "collect"
    /\ m_sources \in SourceSets
    /\ m_outcome = [s \in SourceNames |-> NoOutcome]
    /\ m_results = <<>>
    /\ m_report = NoReport

\* as_completed yields the future of source, which ended with outcome
MainCollect(source, outcome) ==
    /\ m_pc = "collect"
    /\ source \in m_sources
    /\ source \notin DictKeys(m_results)
    /\ m_outcome' = [m_outcome EXCEPT ![source] = outcome]
    /\ m_results' = DictSet(m_results, source, MainEntry(outcome))
    /\ UNCHANGED <<m_pc, m_sources, m_report>>

\* run_research returns; main() builds the report from raw_results
MainProcess ==
    /\ m_pc = "collect"
    /\ DictKeys(m_results) = m_sources
    /\ m_report' = BuildReport(RawResults(m_results))
    /\ m_pc' = "done"
    /\ UNCHANGED <<m_sources, m_outcome, m_results>>

MainStep ==
    \/ \E source \in SourceNames : \E outcome \in MainOutcomes(source) : MainCollect(source, outcome)
    \/ MainProcess

(***************************************************************************)
(* score_<class>_items on two items that differ in date_confidence only    *)
(***************************************************************************)

\* sub-scores of the model: the ends of the range, the academic bases and
\* values between them
SubScoreValues == {0, 10, 20, 30, 50, 77, 100}

ConfIdle ==
    /\ c_pc = "idle"
    /\ c_weights = PAPER_WEIGHTS
    /\ c_subs = SubScores(0, 0, 0)
    /\ c_high = 0
    /\ c_low = 0

ConfInit ==
    /\ c_pc = "input"
    /\ c_weights \in {PAPER_WEIGHTS, HF_WEIGHTS}
    /\ c_subs \in {SubScores(r, c, a) : r \in SubScoreValues, c \in SubScoreValues, a \in SubScoreValues}
    /\ c_high = 0
    /\ c_low = 0

\* score_<class>_items([high, low])
ConfScore ==
    /\ c_pc = "input"
    /\ c_high' = OverallScore(c_weights, c_subs.relevance, c_subs.recency, c_subs.engagement, "high")
    /\ c_low' = OverallScore(c_weights, c_subs.relevance, c_subs.recency, c_subs.engagement, "low")
    /\ c_pc' = "done"
    /\ UNCHANGED <<c_weights, c_subs>>

ConfStep == ConfScore

(***************************************************************************)
(* main(): the cache in front of the pipeline.  The cache file of the key  *)
(* of (topic, from, to, sources) is absent or holds what an earlier run    *)
(* left: the JSON of a report, a truncated write, the JSON of a report of  *)
(* an older schema, or an empty object.                                    *)
(***************************************************************************)
DEFAULT_TTL_HOURS == 24

ContentReport == "report.to_dict()"
ContentTruncated == "{\"topic\": \"ge"
ContentOldSchema == "{\"query\": \"gene map\"}"
ContentEmptyDict == "{}"
Contents == {ContentReport, ContentTruncated, ContentOldSchema, ContentEmptyDict}

\* the age of the file in hours
Ages == {0, 23, 24, 30}

CacheFile(exists, age, content) == [exists |-> exists, age |-> age, content |-> content]
CacheFiles ==
    {CacheFile(FALSE, NoneInt, None)} \cup {CacheFile(TRUE, a, c) : a \in Ages, c \in Contents}

is_cache_validMut(cache_path, ttl_hours) ==
    cache_path.exists /\ ~(cache_path.age > ttl_hours)

\* cache.is_cache_valid
is_cache_valid(cache_path, ttl_hours) ==
    IF ~cache_path.exists THEN FALSE
    ELSE cache_path.age < ttl_hours

\* cache.load_cache_with_age: (data, age), or (None, None)
load_cache_with_age(cache_path) ==
    IF ~is_cache_valid(cache_path, DEFAULT_TTL_HOURS) THEN [data |-> None, age |-> NoneInt]
    ELSE IF cache_path.content = ContentTruncated      \* json.JSONDecodeError
         THEN [data |-> None, age |-> NoneInt]
         ELSE [data |-> cache_path.content, age |-> cache_path.age]

\* `if cached_data:` of main
CachedDataTruthy(cached_data) == cached_data # None /\ cached_data # ContentEmptyDict

\* schema.Report.from_dict(cached_data) raises KeyError: data['topic']
FromDictRaises(cached_data) == cached_data = ContentOldSchema

NoOutput == [emitted |-> FALSE, from_cache |-> FALSE, cache_age_hours |-> NoneInt]

CacheIdle ==
    /\ k_pc = "idle"
    /\ k_mock = FALSE
    /\ k_refresh = FALSE
    /\ k_sources = {}
    /\ k_file = CacheFile(FALSE, NoneInt, None)
    /\ k_calls = {}
    /\ k_out = NoOutput
    /\ k_saved = FALSE

CacheInit ==
    /\ k_pc = "check"
    /\ k_mock \in BOOLEAN
    /\ k_refresh \in BOOLEAN
    /\ k_sources \in SourceSets
    /\ k_file \in CacheFiles
    /\ k_calls = {}
    /\ k_out = NoOutput
    /\ k_saved = FALSE

\* main(): `if not args.mock and not args.refresh:` load the cache; a loaded
\* report is output with from_cache = True and main returns
CacheCheck ==
    /\ k_pc = "check"
    /\ LET cached == IF ~k_mock /\ ~k_refresh THEN load_cache_with_age(k_file)
                     ELSE [data |-> None, age |-> NoneInt]
       IN  IF CachedDataTruthy(cached.data) /\ ~FromDictRaises(cached.data)
           THEN /\ k_out' = [emitted |-> TRUE, from_cache |-> TRUE,
                             cache_age_hours |-> cached.age]
                /\ k_pc' = "done"
           ELSE /\ k_pc' = "research"
                /\ UNCHANGED k_out
    /\ UNCHANGED <<k_mock, k_refresh, k_sources, k_file, k_calls, k_saved>>

\* run_research: openalex.discover_topics(topic) before the searches
CacheDiscoverTopics ==
    /\ k_pc = "research"
    /\ k_calls' = IF "openalex" \in k_sources /\ ~k_mock
                  THEN k_calls \cup {"discover_topics"} ELSE k_calls
    /\ k_pc' = "search"
    /\ UNCHANGED <<k_mock, k_refresh, k_sources, k_file, k_out, k_saved>>

\* run_research: a submitted _search_<source> calls its adapter
CacheSearch(source) ==
    /\ k_pc = "search"
    /\ source \in k_sources
    /\ source \notin k_calls
    /\ k_calls' = k_calls \cup {source}
    /\ UNCHANGED <<k_pc, k_mock, k_refresh, k_sources, k_file, k_out, k_saved>>

\* main(): every future completed; the report is saved unless --mock, and
\* output
CacheOutput ==
    /\ k_pc = "search"
    /\ k_sources \subseteq k_calls
    /\ k_saved' = ~k_mock
    /\ k_out' = [emitted |-> TRUE, from_cache |-> FALSE, cache_age_hours |-> NoneInt]
    /\ k_pc' = "done"
    /\ UNCHANGED <<k_mock, k_refresh, k_sources, k_file, k_calls>>

CacheStep ==
    \/ CacheCheck
    \/ CacheDiscoverTopics
    \/ \E source \in SourceNames : CacheSearch(source)
    \/ CacheOutput

(***************************************************************************)
(* The depth caps of the adapters.  The upstream is the number of records  *)
(* that pass the adapter's own filters: for HuggingFace the models, the    *)
(* datasets and the daily papers, for the other adapters one list.         *)
(***************************************************************************)
Depths == {"quick", "default", "deep"}

\* DEPTH_LIMITS of each adapter module
DEPTH_LIMITS ==
    [biorxiv |-> [quick |-> 20, default |-> 50, deep |-> 200],
     medrxiv |-> [quick |-> 20, default |-> 50, deep |-> 200],
     huggingface |-> [quick |-> 20, default |-> 50, deep |-> 100],
     arxiv |-> [quick |-> 30, default |-> 100, deep |-> 200],
     pubmed |-> [quick |-> 30, default |-> 100, deep |-> 200],
     openalex |-> [quick |-> 30, default |-> 100, deep |-> 200],
     semanticscholar |-> [quick |-> 30, default |-> 100, deep |-> 200]]

UpstreamCounts == {0, 1, 20, 21, 50, 100, 101, 200, 201}

Upstream(main, datasets, papers) == [main |-> main, datasets |-> datasets, papers |-> papers]

\* what the upstream can hold for an adapter
Upstreams(adapter) ==
    IF adapter = "huggingface"
    THEN {Upstream(m, d, p) : m \in UpstreamCounts, d \in UpstreamCounts, p \in UpstreamCounts}
    ELSE {Upstream(m, 0, 0) : m \in UpstreamCounts}

\* len(results[:max_results])
SliceLen(n, max) == Min2(n, max)

\* the length of the list search_<adapter> returns: openalex, semantic
\* scholar and the preprint servers return results[:max]; arxiv and pubmed
\* return every parsed record; huggingface appends the models, the datasets
\* and the papers to all_items and returns it
ReturnedLen(adapter, depth, upstream) ==
    LET limit == DEPTH_LIMITS[adapter][depth] IN
    CASE adapter \in {"openalex", "semanticscholar", "biorxiv", "medrxiv"} ->
            SliceLen(upstream.main, limit)
      [] adapter \in {"arxiv", "pubmed"} -> upstream.main
      [] adapter = "huggingface" -> upstream.main + upstream.datasets + upstream.papers

DepthIdle ==
    /\ l_pc = "idle"
    /\ l_adapter = "openalex"
    /\ l_depth = "default"
    /\ l_upstream = Upstream(0, 0, 0)
    /\ l_len = 0

DepthInit ==
    /\ l_pc = "call"
    /\ l_adapter \in SourceNames
    /\ l_depth \in Depths
    /\ l_upstream \in Upstreams(l_adapter)
    /\ l_len = 0

\* search_<adapter>(topic, from_date, to_date, depth)
DepthSearch ==
    /\ l_pc = "call"
    /\ l_len' = ReturnedLen(l_adapter, l_depth, l_upstream)
    /\ l_pc' = "returned"
    /\ UNCHANGED <<l_adapter, l_depth, l_upstream>>

DepthStep == DepthSearch

(***************************************************************************)
(* openalex.discover_topics and the filter of the search that follows it.  *)
(* A topic id is the pair of its URL prefix and its short id, so that      *)
(* str.replace and the re-prefixing of _fetch_page are computed.           *)
(***************************************************************************)
MaxTopicResults == 3

\* "https://openalex.org/T11048", "T10066", "https://openalex.org/", ""
TopicId(prefixed, tid) == [prefixed |-> prefixed, tid |-> tid]
RawIds == {TopicId(TRUE, "T11048"), TopicId(FALSE, "T10066"), TopicId(TRUE, ""), TopicId(FALSE, "")}

\* the entries of 'results': a dict with an 'id', a dict without one, a dict
\* whose 'id' is null, and an entry that is not a dict
TopicResult(shape, id) == [shape |-> shape, id |-> id]
TopicResults ==
    {TopicResult("dict", id) : id \in RawIds}
    \cup {TopicResult("no id", TopicId(FALSE, "")), TopicResult("null id", TopicId(FALSE, "")),
          TopicResult("not a dict", TopicId(FALSE, ""))}

RECURSIVE SeqsUpTo(_, _)
SeqsUpTo(S, n) ==
    IF n = 0 THEN {<<>>}
    ELSE LET shorter == SeqsUpTo(S, n - 1) IN
         shorter \cup {Append(q, x) : q \in {r \in shorter : Len(r) = n - 1}, x \in S}

\* what http.get(url, timeout=15) does: raises http.HTTPError, raises
\* another exception, or returns the decoded JSON
TopicsResponse(kind, results) == [kind |-> kind, results |-> results]
TopicsResponses ==
    {TopicsResponse(k, <<>>) : k \in {"HTTPError", "Exception", "list", "no results"}}
    \cup {TopicsResponse("dict", rs) : rs \in SeqsUpTo(TopicResults, MaxTopicResults)}

\* raw_id.replace('https://openalex.org/', '')
StripTopicPrefix(raw_id) == TopicId(FALSE, raw_id.tid)

\* the loop body of discover_topics raises AttributeError on this entry
TopicResultRaises(result) == result.shape \in {"not a dict", "null id"}

\* the for loop of discover_topics, from entry k on
RECURSIVE TopicLoop(_, _, _)
TopicLoop(results, k, topic_ids) ==
    IF k > Len(results) THEN [raised |-> FALSE, topic_ids |-> topic_ids]
    ELSE IF TopicResultRaises(results[k]) THEN [raised |-> TRUE, topic_ids |-> topic_ids]
    ELSE LET raw_id == IF results[k].shape = "no id" THEN TopicId(FALSE, "") ELSE results[k].id
             tid == StripTopicPrefix(raw_id)
         IN  TopicLoop(results, k + 1,
                       IF tid.tid # "" THEN Append(topic_ids, tid) ELSE topic_ids)

\* the try block of discover_topics
TopicsTry(response) ==
    CASE response.kind \in {"HTTPError", "Exception"} -> [raised |-> TRUE, topic_ids |-> <<>>]
      [] response.kind = "list" -> [raised |-> TRUE, topic_ids |-> <<>>]
      [] response.kind = "no results" -> [raised |-> FALSE, topic_ids |-> <<>>]
      [] response.kind = "dict" -> TopicLoop(response.results, 1, <<>>)

\* `except Exception` of discover_topics
TopicsCaughtMut(response) == response.kind = "HTTPError"
TopicsCaught(response) == TRUE

\* discover_topics: the ids, or [] from the except clause; raised when the
\* exception is not caught
discover_topics(response) ==
    LET try == TopicsTry(response) IN
    IF ~try.raised THEN [raised |-> FALSE, topic_ids |-> try.topic_ids]
    ELSE IF TopicsCaught(response) THEN [raised |-> FALSE, topic_ids |-> <<>>]
    ELSE [raised |-> TRUE, topic_ids |-> <<>>]

\* _fetch_page: the filter of the works request
FetchPageFilter(from, to, topic_ids) ==
    [from_publication_date |-> from, to_publication_date |-> to,
     has_topics_id |-> topic_ids # <<>>,
     topics_id |-> [k \in 1..Len(topic_ids) |->
                       IF topic_ids[k].prefixed THEN topic_ids[k]
                       ELSE TopicId(TRUE, topic_ids[k].tid)]]

NoFilter ==
    [from_publication_date |-> 0, to_publication_date |-> 0, has_topics_id |-> FALSE,
     topics_id |-> <<>>]

TopicsIdle ==
    /\ t_pc = "idle"
    /\ t_response = TopicsResponse("no results", <<>>)
    /\ t_topic_ids = <<>>
    /\ t_filter = NoFilter

TopicsInit ==
    /\ t_pc = "discover"
    /\ t_response \in TopicsResponses
    /\ t_topic_ids = <<>>
    /\ t_filter = NoFilter

\* run_research: topic_ids = openalex.discover_topics(topic)
TopicsDiscover ==
    /\ t_pc = "discover"
    /\ LET r == discover_topics(t_response) IN
       /\ t_pc' = IF r.raised THEN "raised" ELSE "search"
       /\ t_topic_ids' = r.topic_ids
    /\ UNCHANGED <<t_response, t_filter>>

\* _search_openalex -> search_openalex(..., topic_ids=topic_ids) -> the
\* request of page 1
TopicsFetchPage ==
    /\ t_pc = "search"
    /\ t_filter' = FetchPageFilter(from_date, to_date, t_topic_ids)
    /\ t_pc' = "fetched"
    /\ UNCHANGED <<t_response, t_topic_ids>>

TopicsStep ==
    \/ TopicsDiscover
    \/ TopicsFetchPage

(***************************************************************************)
(* search_preprint_server, thread by thread: the main thread fetches the   *)
(* first page, submits the remaining cursors to a pool of PARALLEL_WORKERS *)
(* threads, collects the futures as they complete, and on the early stop   *)
(* cancels the futures one by one.  The upstream is fixed at the start: a  *)
(* total and what each page holds.                                         *)
(***************************************************************************)
FanTotals == {100, 300, 700, 800}

\* what the pages of the upstream hold
FanProfiles == {"none", "tens", "first full", "late", "fails", "first fails", "first empty"}

\* the response to the request of the page at cursor cur
FanResponse(profile, total, cur) ==
    CASE profile = "none" -> PageOk(0, TRUE)
      [] profile = "tens" -> IF cur = 0 THEN PageOk(0, TRUE) ELSE PageOk(10, TRUE)
      [] profile = "first full" -> IF cur = 0 THEN PageOk(30, TRUE) ELSE PageOk(10, TRUE)
      [] profile = "late" -> IF cur > 0 /\ cur >= total - 200 THEN PageOk(10, TRUE)
                             ELSE PageOk(0, TRUE)
      [] profile = "fails" -> IF cur = 0 THEN PageOk(0, TRUE)
                              ELSE IF cur = 200 THEN PageHTTPError ELSE PageOk(10, TRUE)
      [] profile = "first fails" -> IF cur = 0 THEN PageHTTPError ELSE PageOk(10, TRUE)
      [] profile = "first empty" -> IF cur = 0 THEN PageEmpty ELSE PageOk(10, TRUE)

\* a pool thread is free to take the next work item
WorkerFreeMut(futures) == TRUE
WorkerFree(futures) ==
    Cardinality({c \in DOMAIN futures : futures[c] = "running"}) < PARALLEL_WORKERS

\* the work queue is first in, first out: the oldest future not yet started
\* and not cancelled
NextQueued(futures, cur) ==
    /\ cur \in DOMAIN futures
    /\ futures[cur] = "pending"
    /\ \A c \in DOMAIN futures : futures[c] = "pending" => cur <= c

NoFutures == [c \in {} |-> "pending"]

FanIdle ==
    /\ b_pc = "idle"
    /\ b_server = "biorxiv"
    /\ b_total = 0
    /\ b_profile = "none"
    /\ b_cursors = <<>>
    /\ b_futures = NoFutures
    /\ b_cancel = 0
    /\ b_requests = <<>>
    /\ b_results = <<>>
    /\ b_return = [items |-> <<>>, error |-> ErrorNone]

FanInit ==
    /\ b_pc = "start"
    /\ b_server \in Preprint
    /\ b_total \in FanTotals
    /\ b_profile \in FanProfiles
    /\ b_cursors = <<>>
    /\ b_futures = NoFutures
    /\ b_cancel = 0
    /\ b_requests = <<>>
    /\ b_results = <<>>
    /\ b_return = [items |-> <<>>, error |-> ErrorNone]

\* return results[:max_relevant], error
FanReturn(results, error) ==
    /\ b_pc' = "returned"
    /\ b_return' = [items |-> Slice(results, max_relevant), error |-> error]

\* the main thread sends the request of the first page
FanFirstRequest ==
    /\ b_pc = "start"
    /\ b_pc' = "first"
    /\ b_requests' = Append(b_requests, 0)
    /\ UNCHANGED <<b_server, b_total, b_profile, b_cursors, b_futures, b_cancel, b_results,
                   b_return>>

\* the first page arrives: the early returns, or the submission of the
\* remaining cursors to the pool
FanFirstPage ==
    /\ b_pc = "first"
    /\ LET resp == FanResponse(b_profile, b_total, 0)
           results == IF resp.kind = "ok" /\ resp.kept > 0 THEN <<Kept(0, resp.kept)>> ELSE <<>>
           count == PAGE_SIZE
           cursors == remaining_cursors(b_server, count, b_total, <<>>)
           fan_out == /\ resp.kind = "ok"
                      /\ resp.kept < max_relevant
                      /\ count < b_total
                      /\ cursors # <<>>
       IN  /\ b_results' = results
           /\ CASE resp.kind = "httperror" ->
                       /\ b_pc' = "returned"
                       /\ b_return' = [items |-> <<>>, error |-> ErrorText(StrException(resp.exc))]
                       /\ UNCHANGED <<b_cursors, b_futures>>
                [] resp.kind = "empty" ->
                       /\ b_pc' = "returned"
                       /\ b_return' = [items |-> <<>>, error |-> ErrorNone]
                       /\ UNCHANGED <<b_cursors, b_futures>>
                [] resp.kind = "ok" /\ ~fan_out ->
                       /\ FanReturn(results, ErrorNone)
                       /\ UNCHANGED <<b_cursors, b_futures>>
                [] resp.kind = "ok" /\ fan_out ->
                       /\ b_pc' = "collect"
                       /\ b_cursors' = cursors
                       /\ b_futures' = [c \in Range(cursors) |-> "pending"]
                       /\ UNCHANGED b_return
    /\ UNCHANGED <<b_server, b_total, b_profile, b_cancel, b_requests>>

\* a free pool thread takes the oldest queued future and sends its request
FanWorkerStart(cur) ==
    /\ b_pc \in {"collect", "cancel", "shutdown"}
    /\ NextQueued(b_futures, cur)
    /\ WorkerFree(b_futures)
    /\ b_futures' = [b_futures EXCEPT ![cur] = "running"]
    /\ b_requests' = Append(b_requests, cur)
    /\ UNCHANGED <<b_pc, b_server, b_total, b_profile, b_cursors, b_cancel, b_results, b_return>>

\* the request of a pool thread completes and sets the result of its future
FanWorkerDone(cur) ==
    /\ b_pc \in {"collect", "cancel", "shutdown"}
    /\ cur \in DOMAIN b_futures
    /\ b_futures[cur] = "running"
    /\ b_futures' = [b_futures EXCEPT ![cur] = "done"]
    /\ UNCHANGED <<b_pc, b_server, b_total, b_profile, b_cursors, b_cancel, b_requests,
                   b_results, b_return>>

\* as_completed yields a finished future: one pass of the for loop
FanCollect(cur) ==
    /\ b_pc = "collect"
    /\ cur \in DOMAIN b_futures
    /\ b_futures[cur] = "done"
    /\ LET resp == FanResponse(b_profile, b_total, cur)
           results == IF resp.kind = "ok" /\ resp.kept > 0
                      THEN Append(b_results, Kept(cur, resp.kept)) ELSE b_results
           futures == [b_futures EXCEPT ![cur] = "collected"]
           enough == resp.kind # "httperror" /\ CountKept(results) >= max_relevant
           last == \A c \in DOMAIN futures : futures[c] = "collected"
       IN  /\ b_results' = results
           /\ b_futures' = futures
           /\ IF enough THEN /\ b_pc' = "cancel"
                             /\ b_cancel' = 1
                             /\ UNCHANGED b_return
              ELSE IF last THEN FanReturn(results, ErrorNone) /\ UNCHANGED b_cancel
              ELSE UNCHANGED <<b_pc, b_cancel, b_return>>
    /\ UNCHANGED <<b_server, b_total, b_profile, b_cursors, b_requests>>

\* the early stop: one f.cancel() of `for f in future_to_cursor: f.cancel()`,
\* which cancels a future that no thread has taken; after the last one, break
FanCancel ==
    /\ b_pc = "cancel"
    /\ LET cur == b_cursors[b_cancel] IN
       b_futures' = IF b_futures[cur] = "pending"
                    THEN [b_futures EXCEPT ![cur] = "cancelled"] ELSE b_futures
    /\ IF b_cancel = Len(b_cursors) THEN b_pc' = "shutdown" /\ b_cancel' = 0
       ELSE b_cancel' = b_cancel + 1 /\ UNCHANGED b_pc
    /\ UNCHANGED <<b_server, b_total, b_profile, b_cursors, b_requests, b_results, b_return>>

\* leaving the with block: shutdown(wait=True) waits for the running
\* requests, then return results[:max_relevant], error
FanShutdown ==
    /\ b_pc = "shutdown"
    /\ \A c \in DOMAIN b_futures : b_futures[c] \notin {"pending", "running"}
    /\ FanReturn(b_results, ErrorNone)
    /\ UNCHANGED <<b_server, b_total, b_profile, b_cursors, b_futures, b_cancel, b_requests,
                   b_results>>

FanStep ==
    \/ FanFirstRequest
    \/ FanFirstPage
    \/ \E cur \in Range(b_cursors) : FanWorkerStart(cur)
    \/ \E cur \in Range(b_cursors) : FanWorkerDone(cur)
    \/ \E cur \in Range(b_cursors) : FanCollect(cur)
    \/ FanCancel
    \/ FanShutdown

(***************************************************************************)
(* The page requests of one search, counted.  The upstream reports any     *)
(* total, large ones included; what a page holds decides only whether the  *)
(* adapter stops before its page cap.                                      *)
(***************************************************************************)
CapTotals == {0, 100, 250, 450, 550, 2900, 3000, 3100, 100000}

\* msg.get('count') of the first page of a preprint server
CapCounts == {0, 100}

CapIdle ==
    /\ q_pc = "idle"
    /\ q_adapter = "openalex"
    /\ q_total = 0
    /\ q_count = 0
    /\ q_queue = <<>>
    /\ q_requests = 0

CapInit ==
    /\ q_pc = "loop"
    /\ q_adapter \in PagedAdapters
    /\ q_total \in CapTotals
    /\ q_count \in (IF q_adapter \in Preprint THEN CapCounts ELSE {PAGE_SIZE})
    /\ q_queue = <<>>
    /\ q_requests = 0

\* one pass of `for page_num in range(1, MAX_PAGES + 1)` of search_openalex,
\* or of `for _page in range(MAX_PAGES)` of search_semantic_scholar; stop
\* stands for the breaks the page itself causes: an error, no records, the
\* depth cap reached, no 'next'
CapPage(stop) ==
    /\ q_pc = "loop"
    /\ q_adapter \in {"openalex", "semanticscholar"}
    /\ q_requests < MAX_PAGES[q_adapter]
    /\ q_requests' = q_requests + 1
    /\ q_pc' = IF \/ stop
                  \/ (q_requests + 1) * PAGE_SIZE >= q_total
                  \/ q_requests + 1 = MAX_PAGES[q_adapter]
               THEN "returned" ELSE "loop"
    /\ UNCHANGED <<q_adapter, q_total, q_count, q_queue>>

\* search_preprint_server: the first page and the cursors submitted; stop
\* stands for the returns the page itself causes
CapFirst(stop) ==
    /\ q_pc = "loop"
    /\ q_adapter \in Preprint
    /\ q_requests' = q_requests + 1
    /\ LET cursors == remaining_cursors(q_adapter, q_count, q_total, <<>>) IN
       IF stop \/ q_count >= q_total \/ cursors = <<>>
       THEN q_pc' = "returned" /\ UNCHANGED q_queue
       ELSE q_pc' = "fanout" /\ q_queue' = cursors
    /\ UNCHANGED <<q_adapter, q_total, q_count>>

\* a pool thread sends the request of the next queued cursor
CapStart ==
    /\ q_pc = "fanout"
    /\ q_queue # <<>>
    /\ q_requests' = q_requests + 1
    /\ q_queue' = Tail(q_queue)
    /\ UNCHANGED <<q_pc, q_adapter, q_total, q_count>>

\* the fan-out ends: every future completed, or the early stop cancelled
\* the futures still queued
CapFanoutEnd ==
    /\ q_pc = "fanout"
    /\ q_pc' = "returned"
    /\ q_queue' = <<>>
    /\ UNCHANGED <<q_adapter, q_total, q_count, q_requests>>

CapStep ==
    \/ \E stop \in BOOLEAN : CapPage(stop)
    \/ \E stop \in BOOLEAN : CapFirst(stop)
    \/ CapStart
    \/ CapFanoutEnd

(***************************************************************************)
(* Specifications                                                          *)
(***************************************************************************)
HttpNext == HttpStep /\ UNCHANGED <<ddVars, pipeVars, runVars, pageVars, filterVars, searchVars, sortVars, mainVars, confVars, cacheVars, depthVars, topicsVars, fanVars, capVars>>

InitHttp == HttpInit /\ DdIdle /\ PipeIdle /\ RunIdle /\ PageIdle /\ FilterIdle /\ SearchIdle /\ SortIdle /\ MainIdle /\ ConfIdle /\ CacheIdle /\ DepthIdle /\ TopicsIdle /\ FanIdle /\ CapIdle

SpecHttp == InitHttp /\ [][HttpNext]_vars

DdNext == DdStep /\ UNCHANGED <<httpVars, pipeVars, runVars, pageVars, filterVars, searchVars, sortVars, mainVars, confVars, cacheVars, depthVars, topicsVars, fanVars, capVars>>

InitDedupe == DdInit /\ HttpIdle /\ PipeIdle /\ RunIdle /\ PageIdle /\ FilterIdle /\ SearchIdle /\ SortIdle /\ MainIdle /\ ConfIdle /\ CacheIdle /\ DepthIdle /\ TopicsIdle /\ FanIdle /\ CapIdle

SpecDedupe == InitDedupe /\ [][DdNext]_vars

PipeNext == PipeStep /\ UNCHANGED <<httpVars, ddVars, runVars, pageVars, filterVars, searchVars, sortVars, mainVars, confVars, cacheVars, depthVars, topicsVars, fanVars, capVars>>

InitPipe == PipeInit /\ HttpIdle /\ DdIdle /\ RunIdle /\ PageIdle /\ FilterIdle /\ SearchIdle /\ SortIdle /\ MainIdle /\ ConfIdle /\ CacheIdle /\ DepthIdle /\ TopicsIdle /\ FanIdle /\ CapIdle

SpecPipe == InitPipe /\ [][PipeNext]_vars

RunNext == RunStep /\ UNCHANGED <<httpVars, ddVars, pipeVars, pageVars, filterVars, searchVars, sortVars, mainVars, confVars, cacheVars, depthVars, topicsVars, fanVars, capVars>>

InitRun == RunInit /\ HttpIdle /\ DdIdle /\ PipeIdle /\ PageIdle /\ FilterIdle /\ SearchIdle /\ SortIdle /\ MainIdle /\ ConfIdle /\ CacheIdle /\ DepthIdle /\ TopicsIdle /\ FanIdle /\ CapIdle

\* every search function ends (its requests have timeouts and bounded
\* retries), the pool runs what is pending and the main thread is not
\* pre-empted for ever: a step that stays possible is eventually taken
SpecRun == InitRun /\ [][RunNext]_vars /\ WF_vars(RunNext)

PageNext == PageStep /\ UNCHANGED <<httpVars, ddVars, pipeVars, runVars, filterVars, searchVars, sortVars, mainVars, confVars, cacheVars, depthVars, topicsVars, fanVars, capVars>>

InitPage == PageInit /\ HttpIdle /\ DdIdle /\ PipeIdle /\ RunIdle /\ FilterIdle /\ SearchIdle /\ SortIdle /\ MainIdle /\ ConfIdle /\ CacheIdle /\ DepthIdle /\ TopicsIdle /\ FanIdle /\ CapIdle

SpecPage == InitPage /\ [][PageNext]_vars

FilterNext == FilterStep /\ UNCHANGED <<httpVars, ddVars, pipeVars, runVars, pageVars, searchVars, sortVars, mainVars, confVars, cacheVars, depthVars, topicsVars, fanVars, capVars>>

InitFilter == FilterInit /\ HttpIdle /\ DdIdle /\ PipeIdle /\ RunIdle /\ PageIdle /\ SearchIdle /\ SortIdle /\ MainIdle /\ ConfIdle /\ CacheIdle /\ DepthIdle /\ TopicsIdle /\ FanIdle /\ CapIdle

SpecFilter == InitFilter /\ [][FilterNext]_vars

SearchNext == SearchStep /\ UNCHANGED <<httpVars, ddVars, pipeVars, runVars, pageVars, filterVars, sortVars, mainVars, confVars, cacheVars, depthVars, topicsVars, fanVars, capVars>>

InitSearch == SearchInit /\ HttpIdle /\ DdIdle /\ PipeIdle /\ RunIdle /\ PageIdle /\ FilterIdle /\ SortIdle /\ MainIdle /\ ConfIdle /\ CacheIdle /\ DepthIdle /\ TopicsIdle /\ FanIdle /\ CapIdle

SpecSearch == InitSearch /\ [][SearchNext]_vars

SortNext == SortStep /\ UNCHANGED <<httpVars, ddVars, pipeVars, runVars, pageVars, filterVars, searchVars, mainVars, confVars, cacheVars, depthVars, topicsVars, fanVars, capVars>>

InitSort == SortInit /\ HttpIdle /\ DdIdle /\ PipeIdle /\ RunIdle /\ PageIdle /\ FilterIdle /\ SearchIdle /\ MainIdle /\ ConfIdle /\ CacheIdle /\ DepthIdle /\ TopicsIdle /\ FanIdle /\ CapIdle

SpecSort == InitSort /\ [][SortNext]_vars

MainNext == MainStep /\ UNCHANGED <<httpVars, ddVars, pipeVars, runVars, pageVars, filterVars, searchVars, sortVars, confVars, cacheVars, depthVars, topicsVars, fanVars, capVars>>

InitMain == MainInit /\ HttpIdle /\ DdIdle /\ PipeIdle /\ RunIdle /\ PageIdle /\ FilterIdle /\ SearchIdle /\ SortIdle /\ ConfIdle /\ CacheIdle /\ DepthIdle /\ TopicsIdle /\ FanIdle /\ CapIdle

SpecMain == InitMain /\ [][MainNext]_vars

ConfNext == ConfStep /\ UNCHANGED <<httpVars, ddVars, pipeVars, runVars, pageVars, filterVars, searchVars, sortVars, mainVars, cacheVars, depthVars, topicsVars, fanVars, capVars>>

InitConf == ConfInit /\ HttpIdle /\ DdIdle /\ PipeIdle /\ RunIdle /\ PageIdle /\ FilterIdle /\ SearchIdle /\ SortIdle /\ MainIdle /\ CacheIdle /\ DepthIdle /\ TopicsIdle /\ FanIdle /\ CapIdle

SpecConf == InitConf /\ [][ConfNext]_vars

CacheNext == CacheStep /\ UNCHANGED <<httpVars, ddVars, pipeVars, runVars, pageVars, filterVars, searchVars, sortVars, mainVars, confVars, depthVars, topicsVars, fanVars, capVars>>

InitCache == CacheInit /\ HttpIdle /\ DdIdle /\ PipeIdle /\ RunIdle /\ PageIdle /\ FilterIdle /\ SearchIdle /\ SortIdle /\ MainIdle /\ ConfIdle /\ DepthIdle /\ TopicsIdle /\ FanIdle /\ CapIdle

SpecCache == InitCache /\ [][CacheNext]_vars

DepthNext == DepthStep /\ UNCHANGED <<httpVars, ddVars, pipeVars, runVars, pageVars, filterVars, searchVars, sortVars, mainVars, confVars, cacheVars, topicsVars, fanVars, capVars>>

InitDepth == DepthInit /\ HttpIdle /\ DdIdle /\ PipeIdle /\ RunIdle /\ PageIdle /\ FilterIdle /\ SearchIdle /\ SortIdle /\ MainIdle /\ ConfIdle /\ CacheIdle /\ TopicsIdle /\ FanIdle /\ CapIdle

SpecDepth == InitDepth /\ [][DepthNext]_vars

TopicsNext == TopicsStep /\ UNCHANGED <<httpVars, ddVars, pipeVars, runVars, pageVars, filterVars, searchVars, sortVars, mainVars, confVars, cacheVars, depthVars, fanVars, capVars>>

InitTopics == TopicsInit /\ HttpIdle /\ DdIdle /\ PipeIdle /\ RunIdle /\ PageIdle /\ FilterIdle /\ SearchIdle /\ SortIdle /\ MainIdle /\ ConfIdle /\ CacheIdle /\ DepthIdle /\ FanIdle /\ CapIdle

SpecTopics == InitTopics /\ [][TopicsNext]_vars

FanNext == FanStep /\ UNCHANGED <<httpVars, ddVars, pipeVars, runVars, pageVars, filterVars, searchVars, sortVars, mainVars, confVars, cacheVars, depthVars, topicsVars, capVars>>

InitFan == FanInit /\ HttpIdle /\ DdIdle /\ PipeIdle /\ RunIdle /\ PageIdle /\ FilterIdle /\ SearchIdle /\ SortIdle /\ MainIdle /\ ConfIdle /\ CacheIdle /\ DepthIdle /\ TopicsIdle /\ CapIdle

SpecFan == InitFan /\ [][FanNext]_vars

CapNext == CapStep /\ UNCHANGED <<httpVars, ddVars, pipeVars, runVars, pageVars, filterVars, searchVars, sortVars, mainVars, confVars, cacheVars, depthVars, topicsVars, fanVars>>

InitCap == CapInit /\ HttpIdle /\ DdIdle /\ PipeIdle /\ RunIdle /\ PageIdle /\ FilterIdle /\ SearchIdle /\ SortIdle /\ MainIdle /\ ConfIdle /\ CacheIdle /\ DepthIdle /\ TopicsIdle /\ FanIdle

SpecCap == InitCap /\ [][CapNext]_vars

Spec == SpecHttp

(***************************************************************************)
(* C4                                                                      *)
(***************************************************************************)
HttpAttempts == Len(h_outcomes)
HttpLast == h_outcomes[Len(h_outcomes)]
HttpDone == h_status \in {"returned", "raised"}

IsStatus(o) == o.kind = "status"
Is5xx(o) == IsStatus(o) /\ o.code >= 500 /\ o.code < 600
Transport(o) == o.kind \in {"urlerror", "connerror"}
\* the failures the claim names as retried
ClaimRetried(o) == Is5xx(o) \/ (IsStatus(o) /\ o.code = 429) \/ Transport(o)
\* the failures the code retries: every HTTP status outside 400..499, and 429
CodeRetried(o) ==
    \/ IsStatus(o) /\ (o.code < 400 \/ o.code >= 500 \/ o.code = 429)
    \/ Transport(o)

\* the shape of a request's history when the retried failures are Retried(_)
HttpPolicy(Retried(_)) ==
    /\ HttpAttempts <= 3
    \* an attempt is followed by another only after a retried failure
    /\ \A k \in 1..(HttpAttempts - 1) : Retried(h_outcomes[k])
    \* and a retried failure below the third attempt is always followed by another
    /\ (HttpDone /\ HttpAttempts > 0 /\ Retried(HttpLast)) => HttpAttempts = 3
    /\ (h_status = "running" /\ HttpAttempts > 0) => Retried(HttpLast)
    \* the first success stops the request
    /\ h_status = "returned" <=> (HttpAttempts > 0 /\ HttpLast.kind = "ok")
    \* a 4xx other than 429 and a JSON parse error end it on their attempt,
    \* and after the third failed attempt the last failure is raised
    /\ (h_status = "raised" /\ HttpLast.kind = "badjson") => h_raised = JsonErr
    /\ (h_status = "raised" /\ IsStatus(HttpLast)) => h_raised = HttpErr(HttpLast.code)
    /\ (h_status = "raised" /\ HttpLast.kind = "urlerror") => h_raised = URLErr
    /\ (h_status = "raised" /\ HttpLast.kind = "connerror") => h_raised = ConnErr
    /\ \A k \in 1..HttpAttempts :
          (IsStatus(h_outcomes[k]) /\ h_outcomes[k].code >= 400 /\ h_outcomes[k].code < 500
             /\ h_outcomes[k].code # 429) \/ h_outcomes[k].kind \in {"badjson", "ok"}
          => k = HttpAttempts /\ HttpDone

\* C4 (as stated): a request is attempted again iff the previous attempt failed
\* with 5xx, 429 or a transport error and fewer than 3 attempts were made; it
\* stops at the first success, at a 4xx other than 429 or a JSON parse error,
\* and after the third failed attempt raises the last failure.
C4_Original == HttpPolicy(ClaimRetried)

\* C4 (amended): the same, where the retried failures are every HTTP error
\* status outside 400..499 (5xx, and also a 3xx such as 304 that urllib reports
\* as an error), 429, and transport errors.
C4_RetryPolicy == HttpPolicy(CodeRetried)

\* three attempts were made, the first two retried (429, transport), the last raised
C4_Witness ==
    /\ h_status = "raised"
    /\ HttpAttempts = 3
    /\ h_outcomes[1] = Outcome("status", 429)
    /\ h_outcomes[2] = Outcome("urlerror", 0)
    /\ h_outcomes[3] = Outcome("status", 500)
    /\ h_raised = HttpErr(500)


(***************************************************************************)
(* C5 - C8: dedupe_cross_source                                            *)
(***************************************************************************)
DdDone == dd_pc = "done"
DdRetained == (1..Len(dd_items)) \ Removed(dd_log)

\* the DOIs of an item as the claims define them: doi, preprint_doi and
\* engagement.published_doi, lower-cased and trimmed
ClaimDois(item) ==
    {LowerStrip(d) : d \in {x \in {item.doi, item.preprint_doi, item.engagement.published_doi} :
                              x # None /\ x # ""}}
ClaimShareDoi(a, b) == ClaimDois(a) \cap ClaimDois(b) # {}

\* title 3-gram Jaccard similarity >= 0.70
ClaimSimilar(a, b) ==
    LET A == get_ngrams(a.title)
        B == get_ngrams(b.title)
    IN 10 * Cardinality(A \cap B) >= 7 * Cardinality(A \cup B)

\* the priority numbers the claims name; a class they do not name keeps the
\* number the code gives it
ClaimPriority(item) ==
    CASE item.cls = "PubmedItem" -> 0
      [] item.cls = "OpenAlexItem" -> 1
      [] item.cls = "BiorxivItem" /\ item.source = "biorxiv" -> 2
      [] item.cls = "BiorxivItem" /\ item.source = "medrxiv" -> 3
      [] item.cls = "ArxivItem" -> 4
      [] item.cls = "HuggingFaceItem" -> 5
      [] OTHER -> _source_priority(item)

\* C5: when two colliding items (shared DOI, or title Jaccard >= 0.70) come
\* from sources of different priority, the one removed on account of the
\* collision is the one with the higher priority number, whatever the scores.
C5_PriorityDecides ==
    DdDone =>
        \A e \in dd_log :
            LET r == dd_items[e.removed]
                k == dd_items[e.by]
            IN /\ ClaimShareDoi(r, k) \/ ClaimSimilar(r, k)
               /\ ClaimPriority(r) # ClaimPriority(k) => ClaimPriority(r) > ClaimPriority(k)

\* a PubMed item of score 60 displaced an item of score 80 of another source
C5_Witness ==
    /\ DdDone
    /\ \E e \in dd_log :
          /\ dd_items[e.by].cls = "PubmedItem"
          /\ dd_items[e.by].score = 60
          /\ dd_items[e.removed].cls = "ArxivItem"
          /\ dd_items[e.removed].score = 80
    /\ \E e \in dd_log : e.pass = "doi" /\ dd_items[e.removed].score > dd_items[e.by].score

\* C6: after dedupe_cross_source no two retained items share a DOI.
C6_NoSharedDoi ==
    DdDone =>
        \A p, q \in 1..Len(dd_out) : p < q => ~ClaimShareDoi(dd_out[p], dd_out[q])

\* three items came in, two of them sharing a DOI, and two items came out
C6_Witness ==
    /\ DdDone
    /\ Len(dd_items) = 3
    /\ Len(dd_out) = 2
    /\ \E e \in dd_log : e.pass = "doi"
    /\ \E p, q \in 1..3 : p < q /\ ClaimShareDoi(dd_items[p], dd_items[q])

\* C7: after dedupe_cross_source no two retained items have title 3-gram
\* Jaccard similarity >= 0.70, for every input list in every order.
C7_NoSimilarTitles ==
    DdDone =>
        \A p, q \in 1..Len(dd_out) : p < q => ~ClaimSimilar(dd_out[p], dd_out[q])

\* the chain "Gene-Map" ~ "gene maps" ~ "gene maps ab": the middle one is
\* removed at similarity exactly 0.70 and the two ends, not similar, stay
C7_Witness ==
    /\ DdDone
    /\ Len(dd_items) = 3
    /\ {dd_items[k].title : k \in 1..3} = DedupeTitles
    /\ Len(dd_out) = 2
    /\ {dd_out[k].title : k \in 1..2} = {TitleGeneMap, TitleGeneMapsAb}
    /\ \E e \in dd_log : e.pass = "title" /\ dd_items[e.by].title = TitleGeneMapsAb

IsS2(item) == item.cls = "SemanticScholarItem"

\* C8: in a collision a Semantic Scholar item ranks with priority 1, like
\* OpenAlex: against an OpenAlex item the higher score is retained, it is
\* retained in preference to bioRxiv, medRxiv, arXiv and HuggingFace items,
\* and removed in preference to a PubMed item.
C8_S2RanksAsOpenAlex ==
    (DdDone /\ Len(dd_items) = 2) =>
        \A a, b \in 1..2 :
            LET s == dd_items[a]
                o == dd_items[b]
            IN (a # b /\ IsS2(s) /\ ~IsS2(o) /\ (ClaimShareDoi(s, o) \/ ClaimSimilar(s, o))) =>
                 CASE o.cls = "PubmedItem" -> dd_out = <<o>>
                   [] o.cls = "OpenAlexItem" ->
                        (s.score > o.score => dd_out = <<s>>) /\ (o.score > s.score => dd_out = <<o>>)
                   [] OTHER -> dd_out = <<s>>

(***************************************************************************)
(* C1, C9, C10: the report of main()                                       *)
(***************************************************************************)
PipeDone == p_pc = "done"

\* the final result set: the per-source lists of the report, concatenated
RECURSIVE ReportItems(_)
ReportItems(k) ==
    IF k > Len(SourceOrder) THEN <<>>
    ELSE p_report.items[SourceOrder[k]] \o ReportItems(k + 1)
ResultSet == ReportItems(1)

\* the results as they would be had the adapter of src not failed
Unfailed(raw_results, src) == [raw_results EXCEPT ![src].error = None]

\* a row whose date the date filter lets pass
RowInRange(row) == row.date = NoneInt \/ (from_date <= row.date /\ row.date <= to_date)

\* C1: when an adapter returns (items, error) with a non-empty error, the
\* report still holds the items that adapter returned, normalized and scored,
\* and the error under that source; the items and the errors of every other
\* source are what they would be had that adapter not failed.
C1_ErrorIsolation ==
    PipeDone =>
        \A src \in SourceNames :
            (p_raw[src].error # None /\ p_raw[src].error # "") =>
                LET unfailed == BuildReport(Unfailed(p_raw, src)) IN
                /\ p_report.errors[src] = p_raw[src].error
                /\ p_report.items = unfailed.items
                /\ \A o \in SourceNames \ {src} : p_report.errors[o] = unfailed.errors[o]
                /\ \A k \in 1..Len(p_report.items[src]) :
                      /\ p_report.items[src][k].score \in 0..100
                      /\ \E r \in 1..Len(p_raw[src].items) :
                            p_report.items[src][k].title = p_raw[src].items[r].title
                \* with no other source to collide with, a row in the date
                \* range is not lost
                /\ ((\E r \in 1..Len(p_raw[src].items) : RowInRange(p_raw[src].items[r]))
                     /\ (\A o \in SourceNames \ {src} : p_raw[o].items = <<>>))
                   => p_report.items[src] # <<>>

\* HuggingFace failed and returned an item, which is reported with the
\* error; arXiv did not fail and its item is reported too
C1_Witness ==
    /\ PipeDone
    /\ p_raw["huggingface"].error \in ErrorStrings
    /\ p_report.errors["huggingface"] = p_raw["huggingface"].error
    /\ Len(p_raw["huggingface"].items) = 1
    /\ Len(p_report.items["huggingface"]) = 1
    /\ p_report.items["huggingface"][1].score > 0
    /\ p_raw["arxiv"].error = None
    /\ p_report.errors["arxiv"] = None
    /\ Len(p_report.items["arxiv"]) = 1

\* C9: after within-source and cross-source dedup no two items of the final
\* result set have the same id.
C9_IdsUnique ==
    PipeDone =>
        \A p, q \in 1..Len(ResultSet) : p # q => ResultSet[p].id # ResultSet[q].id

\* C10: every item of the final result set has an integer score in 0..100
\* and a relevance in [0, 1] (0..1000 thousandths), rank-boosted ones included.
C10_ScoreAndRelevanceBounds ==
    PipeDone =>
        \A k \in 1..Len(ResultSet) :
            /\ ResultSet[k].score \in 0..100
            /\ ResultSet[k].relevance \in 0..1000

\* the report holds an OpenAlex item whose keyword relevance 1.0 was boosted
\* at rank 0 and capped at 1.0, and an undated arXiv item of relevance 0 whose
\* weighted sum 7.5 - 10 is below 0 and whose score is 0
C10_Witness ==
    /\ PipeDone
    /\ \E k \in 1..Len(ResultSet) :
          /\ ResultSet[k].cls = "OpenAlexItem"
          /\ ResultSet[k].relevance = 1000
          /\ compute_keyword_relevance(p_topic, ResultSet[k].title, <<>>) + position_boost(0) > 1000
          /\ \E r \in 1..Len(p_raw["openalex"].items) :
                p_raw["openalex"].items[r] = AdapterRow("openalex", p_topic, WorkCited, 0)
    /\ \E k \in 1..Len(ResultSet) :
          /\ ResultSet[k].cls = "ArxivItem"
          /\ ResultSet[k].date_confidence = "low"
          /\ ResultSet[k].subs = SubScores(0, 0, 30)
          /\ ResultSet[k].score = 0

(***************************************************************************)
(* C2: run_research                                                        *)
(***************************************************************************)
RunDone == r_pc = "done"

\* the entry the claim expects for what the adapter of a source did
ClaimEntry(outcome) ==
    IF outcome.kind = "raised"
    THEN <<<<>>, <<outcome.exc.type, ": ", outcome.exc.msg>>>>
    ELSE <<outcome.items, outcome.error>>

\* on return there is exactly one entry per active source, the pair the
\* adapter returned or ([], "<ExceptionType>: <message>") if it raised
RunEntriesRight ==
    RunDone =>
        /\ DOMAIN r_results = r_sources
        /\ \A s \in r_sources : r_results[s] = ClaimEntry(r_outcome[s])

\* C2: for every set of active sources and every interleaving of adapter
\* completions, run_research terminates holding exactly one (items, error)
\* entry per active source; an adapter that raises yields
\* ([], "<ExceptionType>: <message>") and does not keep the results of the
\* other adapters from being collected.
C2_TerminatesWithAllEntries == <>RunDone /\ []RunEntriesRight

\* all five sources ran; one raised, one failed with partial items, and all
\* five entries are held on return
C2_Witness ==
    /\ RunDone
    /\ Cardinality(r_sources) = 5
    /\ DOMAIN r_results = r_sources
    /\ r_outcome["openalex"] = Raised(Exc("TypeError", "'>=' not supported"))
    /\ r_results["openalex"] = <<<<>>, <<"TypeError", ": ", "'>=' not supported">>>>
    /\ r_results["arxiv"] = <<<<"row">>, None>>
    /\ r_results["pubmed"] = <<<<"row">>, "HTTP 500">>

(***************************************************************************)
(* C3: a failing later page of a paged adapter                             *)
(***************************************************************************)

PageReturned == a_pc = "returned"

FirstPageOk == Len(a_log) >= 1 /\ a_log[1].resp.kind = "ok"

LaterPageFailed ==
    \E k \in 2..Len(a_log) : a_log[k].resp.kind \in {"httperror", "exception"}

\* the records of the pages that succeeded, in the order they were handled
ClaimCollected ==
    LET ok == SelectSeq(a_log, LAMBDA e : e.resp.kind = "ok")
    IN  [k \in 1..Len(ok) |-> Kept(ok[k].offset, ok[k].resp.kept)]

ClaimNonEmptyError == ~a_return.error.is_none /\ a_return.error.text # <<>>

\* C3: when the first page of a paged adapter (OpenAlex, Semantic Scholar,
\* bioRxiv/medRxiv) succeeded and the request of a later page fails, the
\* adapter returns the items collected from the pages that succeeded
\* together with a non-empty error string.
C3_PartialItemsWithError ==
    (PageReturned /\ FirstPageOk /\ LaterPageFailed) =>
        /\ a_return.items = Slice(ClaimCollected, MaxKept(a_adapter))
        /\ ClaimNonEmptyError

\* the part of C3 the code keeps: the items of the pages that succeeded
C3_PartialItems ==
    (PageReturned /\ FirstPageOk /\ LaterPageFailed) =>
        a_return.items = Slice(ClaimCollected, MaxKept(a_adapter))

\* the failure of a later page that does reach the error string: an
\* exception other than http.HTTPError in the loop of OpenAlex or Semantic
\* Scholar
C3_ErrorOnlyFromOtherException ==
    (PageReturned /\ FirstPageOk /\ LaterPageFailed) =>
        (ClaimNonEmptyError <=>
            /\ a_adapter \in {"openalex", "semanticscholar"}
            /\ a_log[Len(a_log)].resp.kind = "exception")

(***************************************************************************)
(* C11: the date filter                                                    *)
(***************************************************************************)

FilterDone == f_pc = "done"

\* the items the claim keeps: no date and require_date false, or a date in
\* [from_date, to_date]
ClaimKept(item, require_date) ==
    \/ item.date = NoneInt /\ ~require_date
    \/ item.date # NoneInt /\ from_date <= item.date /\ item.date <= to_date

ClaimKeptIdx == {k \in 1..Len(f_items) : ClaimKept(f_items[k], f_require_date)}

\* C11: filter_by_date_range returns, in input order, exactly the items
\* without a date when require_date is false and the items whose date lies
\* in [from, to], both bounds included; every dated item of the report lies
\* in the requested range.
C11_DateFilter ==
    /\ FilterDone => f_result = SelectIdx(f_items, ClaimKeptIdx, 1)
    /\ PipeDone => \A k \in 1..Len(ResultSet) :
           ResultSet[k].date # NoneInt =>
               from_date <= ResultSet[k].date /\ ResultSet[k].date <= to_date

\* both bounds met, an item on each side dropped, an undated one kept
C11_Witness ==
    /\ FilterDone
    /\ ~f_require_date
    /\ Len(f_items) = MaxFilterItems
    /\ f_items[1].date = to_date
    /\ f_items[2].date = NoneInt
    /\ f_items[3].date = to_date + 1
    /\ Len(f_result) = 2

(***************************************************************************)
(* C12: the relevance floor of the adapters                                *)
(***************************************************************************)

\* the upstream record a raw row was built from
ClaimWorkOf(row) == CHOOSE work \in Works : work.nid = row.nid /\ work.title = row.title

\* the keyword relevance of a raw row, before any rank boost
ClaimKeywordRelevance(row) ==
    compute_keyword_relevance(p_topic, ClaimWorkOf(row).title, ClaimWorkOf(row).abstract)

ClaimCutoff(src) == IF src = "semanticscholar" THEN RELEVANCE_THRESHOLD ELSE ADAPTER_THRESHOLD

\* C12: every raw item an adapter returns has keyword relevance (before the
\* rank boost) above 0.1, and above 0.3 for Semantic Scholar.
C12_RelevanceFloor ==
    \A src \in SourceNames : \A k \in 1..Len(p_raw[src].items) :
        ClaimKeywordRelevance(p_raw[src].items[k]) > ClaimCutoff(src)

(***************************************************************************)
(* C13: the empty topic                                                    *)
(***************************************************************************)

SearchReturned == s_pc = "returned"

ClaimZeroRelevance(topic) ==
    \A work \in Works : compute_keyword_relevance(topic, work.title, work.abstract) = 0

\* C13: with an empty topic compute_keyword_relevance is 0 for every title
\* and abstract, and every adapter returns an empty item list.
C13_EmptyTopicNoItems ==
    s_topic = TopicEmpty =>
        /\ ClaimZeroRelevance(s_topic)
        /\ SearchReturned => s_items = <<>>

\* the part of C13 that holds: the relevance of an empty topic is 0
C13_EmptyTopicZeroRelevance ==
    (s_pc # "idle" /\ s_topic \in {TopicEmpty, TopicBlank}) => ClaimZeroRelevance(s_topic)

(***************************************************************************)
(* C14: a record that lacks a field                                        *)
(***************************************************************************)

\* C14: an upstream row that lacks a field (a HuggingFace model or dataset
\* without lastModified and createdAt included, whose date is then null)
\* never makes the adapter raise: the call ends by returning its pair.
C14_NeverRaises == s_pc # "raised"

(***************************************************************************)
(* C15: sort_items and the order of its input                              *)
(***************************************************************************)

SortDone == o_pc = "done"

\* the key (-score, -date_as_int, title) of x is not after that of y
ClaimKeyLeq(x, y) ==
    \/ x.score > y.score
    \/ x.score = y.score /\ DateKey(x.date) > DateKey(y.date)
    \/ x.score = y.score /\ DateKey(x.date) = DateKey(y.date)
         /\ (x.title = y.title \/ StrLess(x.title, y.title))

\* C15: sort_items returns the identical sequence for every permutation of
\* the same input items, ordered by (-score, -date_as_int, title) with an
\* absent date counted as 0000-00-00.
C15_SortIgnoresInputOrder ==
    SortDone =>
        /\ o_sorted = o_sorted_permuted
        /\ \A k \in 1..(Len(o_sorted) - 1) : ClaimKeyLeq(o_sorted[k], o_sorted[k + 1])

\* the part of C15 that holds: the output is in key order, and permutations
\* of items with pairwise different keys sort to the same sequence
C15_SortedByKey ==
    SortDone =>
        /\ \A k \in 1..(Len(o_sorted) - 1) : ClaimKeyLeq(o_sorted[k], o_sorted[k + 1])
        /\ (\A i, j \in 1..Len(o_items) :
               i # j => ~(ClaimKeyLeq(o_items[i], o_items[j]) /\ ClaimKeyLeq(o_items[j], o_items[i])))
           => o_sorted = o_sorted_permuted

(***************************************************************************)
(* C16: the completion order of the source tasks                           *)
(***************************************************************************)

MainDone == m_pc = "done"

\* the adapter outputs as such, whatever the order they arrived in
ClaimOutputs ==
    [src \in SourceNames |->
        IF m_outcome[src].kind = "returned"
            THEN RawResult(m_outcome[src].items, m_outcome[src].error)
        ELSE IF m_outcome[src].kind = "raised"
            THEN RawResult(<<>>, m_outcome[src].exc.msg)
        ELSE RawResult(<<>>, None)]

\* C16: for fixed adapter outputs the report (the per-source item lists,
\* their order and the per-source errors) is the same for every order in
\* which the source tasks complete.
C16_CompletionOrderUnobservable == MainDone => m_report = BuildReport(ClaimOutputs)

\* all five sources of 'all' completed in the reverse of the submission
\* order, and the report holds items and errors
C16_Witness ==
    /\ MainDone
    /\ Len(m_results) = 5
    /\ m_results[1].key = "huggingface"
    /\ m_results[5].key = "openalex"
    /\ m_report.errors["arxiv"] # None
    /\ m_report.items["openalex"] # <<>>

(***************************************************************************)
(* C17: the low date confidence penalty                                    *)
(***************************************************************************)

ConfDone == c_pc = "done"

\* C17: two items identical but for date_confidence (high, low) get scores
\* that differ by exactly 10, for every combination of the relevance,
\* recency and engagement sub-scores.
C17_PenaltyIsTen == ConfDone => c_high - c_low = LOW_CONFIDENCE_PENALTY

\* what holds: the difference is 10 when the unpenalised weighted sum is at
\* least 10, and the score with "high" itself (the low score is 0) below that
C17_PenaltyUnlessClamped ==
    ConfDone =>
        LET overall100 == c_weights[1] * c_subs.relevance + c_weights[2] * c_subs.recency
                          + c_weights[3] * c_subs.engagement
        IN  IF overall100 >= 100 * LOW_CONFIDENCE_PENALTY
            THEN c_high - c_low = LOW_CONFIDENCE_PENALTY
            ELSE c_low = 0 /\ c_high = overall100 \div 100

(***************************************************************************)
(* C18: the round trip of the report through to_dict and from_dict         *)
(***************************************************************************)

\* main() built the report and handed report.to_dict() to the cache
ReportSaved == p_pc = "done"

\* C18: Report.from_dict(report.to_dict()) is a report equal to the
\* original: the same per-source item lists, Semantic Scholar included,
\* with the same item fields, and the same per-source errors.
C18_RoundTrip == ReportSaved => ReportFromDict(p_saved) = p_report

\* what holds: the lists and errors of the six sources the Report dataclass
\* declares come back, for items whose engagement has a field set
C18_RoundTripOfDeclaredSources ==
    ReportSaved =>
        \A src \in ReportSources :
            /\ ReportFromDict(p_saved).errors[src] = p_report.errors[src]
            /\ (\A k \in 1..Len(p_report.items[src]) :
                    ~EngagementAllNone(p_report.items[src][k].engagement))
               => ReportFromDict(p_saved).items[src] = p_report.items[src]

(***************************************************************************)
(* C19: a cache hit short-circuits the pipeline                            *)
(***************************************************************************)

CacheDone == k_pc = "done"

\* the entry exists, is younger than 24 hours and deserializes, and neither
\* --mock nor --refresh is given
ClaimCacheHit ==
    /\ k_file.exists
    /\ k_file.age < 24
    /\ k_file.content = ContentReport
    /\ ~k_mock
    /\ ~k_refresh

\* C19: on a cache hit (entry present, younger than 24 hours, deserializes,
\* neither --mock nor --refresh) no adapter and no topic discovery call is
\* made and the cached report is emitted with from_cache = true; in every
\* other case the pipeline runs the adapters of the requested sources.
C19_CacheHitShortCircuits ==
    /\ ClaimCacheHit => k_calls = {} /\ ~k_saved
    /\ CacheDone =>
          IF ClaimCacheHit
          THEN k_out.emitted /\ k_out.from_cache /\ k_out.cache_age_hours = k_file.age
          ELSE k_out.emitted /\ ~k_out.from_cache /\ k_sources \subseteq k_calls

C19_Witness == CacheDone /\ ClaimCacheHit /\ k_out.from_cache /\ k_file.age = 23

(***************************************************************************)
(* C20: the depth cap on the list an adapter returns                       *)
(***************************************************************************)

DepthReturned == l_pc = "returned"

\* the caps of the claim, for quick, default and deep
ClaimDepthCap(adapter, depth) ==
    LET caps == CASE adapter \in {"biorxiv", "medrxiv"} -> <<20, 50, 200>>
                  [] adapter = "huggingface" -> <<20, 50, 100>>
                  [] OTHER -> <<30, 100, 200>>
    IN  CASE depth = "quick" -> caps[1]
          [] depth = "default" -> caps[2]
          [] depth = "deep" -> caps[3]

\* C20: the list an adapter returns never has more items than the depth
\* cap of the requested depth (bioRxiv/medRxiv 20/50/200, HuggingFace
\* 20/50/100, the others 30/100/200), whatever the upstream returns.
C20_DepthCap == DepthReturned => l_len <= ClaimDepthCap(l_adapter, l_depth)

\* what holds: the cap bounds the lists of OpenAlex, Semantic Scholar,
\* bioRxiv and medRxiv, and the caps of the claim are DEPTH_LIMITS
C20_DepthCapOfSlicingAdapters ==
    /\ \A a \in SourceNames, d \in Depths : DEPTH_LIMITS[a][d] = ClaimDepthCap(a, d)
    /\ DepthReturned /\ l_adapter \in {"openalex", "semanticscholar", "biorxiv", "medrxiv"}
       => l_len <= ClaimDepthCap(l_adapter, l_depth)

\* what holds for HuggingFace when the Hub honours limit and no daily paper
\* matches: the list is at most twice the cap
C20_HuggingFaceModelsAndDatasets ==
    DepthReturned /\ l_adapter = "huggingface" /\ l_upstream.papers = 0
    /\ l_upstream.main <= ClaimDepthCap("huggingface", l_depth)
    /\ l_upstream.datasets <= ClaimDepthCap("huggingface", l_depth)
    => l_len <= 2 * ClaimDepthCap("huggingface", l_depth)

(***************************************************************************)
(* C21: topic discovery fails without harm                                 *)
(***************************************************************************)

\* the HTTP call raised, or its result cannot be parsed
ClaimDiscoveryFails ==
    \/ t_response.kind \in {"HTTPError", "Exception", "list"}
    \/ /\ t_response.kind = "dict"
       /\ \E k \in 1..Len(t_response.results) :
             t_response.results[k].shape \in {"not a dict", "null id"}

\* C21: a failure of OpenAlex topic discovery (any exception of the HTTP call
\* or of parsing its result) gives an empty topic-id list and never an
\* exception, and the OpenAlex search then runs without the topics.id filter.
C21_DiscoveryFailureIsHarmless ==
    /\ t_pc # "raised"
    /\ ClaimDiscoveryFails /\ t_pc \in {"search", "fetched"} => t_topic_ids = <<>>
    /\ ClaimDiscoveryFails /\ t_pc = "fetched" => ~t_filter.has_topics_id

C21_Witness ==
    /\ t_pc = "fetched"
    /\ t_response.kind = "dict"
    /\ Len(t_response.results) = 2
    /\ t_response.results[1] = TopicResult("dict", TopicId(TRUE, "T11048"))
    /\ t_response.results[2].shape = "null id"
    /\ ~t_filter.has_topics_id

\* a discovery that succeeds narrows the search to the ids found
C21_DiscoveredIdsFilter ==
    t_pc = "fetched" /\ ~ClaimDiscoveryFails /\ t_topic_ids # <<>>
    => /\ t_filter.has_topics_id
       /\ \A k \in 1..Len(t_topic_ids) :
             t_filter.topics_id[k] = TopicId(TRUE, t_topic_ids[k].tid) /\ t_topic_ids[k].tid # ""

(***************************************************************************)
(* C22: the score formula                                                  *)
(***************************************************************************)

\* the weighted sum of the sub-scores, in hundredths
ClaimWeighted100 ==
    c_weights[1] * c_subs.relevance + c_weights[2] * c_subs.recency
    + c_weights[3] * c_subs.engagement

\* round() of a non-negative number of hundredths, halves to the even integer
ClaimRound(x100) ==
    LET q == x100 \div 100
        r == x100 % 100
    IN  IF r > 50 \/ (r = 50 /\ q % 2 = 1) THEN q + 1 ELSE q

ClaimClamp(x) == Max2(0, Min2(100, x))

C22_ScoreIsTruncatedSum ==
    ConfDone =>
        /\ c_high = ClaimClamp(ClaimWeighted100 \div 100)
        /\ c_low = ClaimClamp(TruncDiv(ClaimWeighted100 - 100 * LOW_CONFIDENCE_PENALTY, 100))
        /\ c_weights \in {<<50, 25, 25>>, <<45, 25, 30>>}

(***************************************************************************)
(* C23: the first page alone, then at most five requests in flight         *)
(***************************************************************************)

\* the request of the first page has completed
FirstPageCompleted == b_pc \notin {"idle", "start", "first"}

\* the page requests sent and not yet completed
ClaimInFlight ==
    {c \in DOMAIN b_futures : b_futures[c] = "running"}
        \cup (IF b_pc = "first" THEN {0} ELSE {})

\* C23: in the bioRxiv/medRxiv adapter no request of a later page starts
\* before the request of the first page (cursor 0) has completed, and after
\* that at most 5 page requests are in flight at any time.
C23_FirstPageThenFiveWorkers ==
    /\ (\E k \in 1..Len(b_requests) : b_requests[k] # 0)
       => FirstPageCompleted /\ b_requests[1] = 0
    /\ ~FirstPageCompleted => ClaimInFlight \subseteq {0}
    /\ Cardinality(ClaimInFlight) <= 5

\* five requests in flight and a sixth future waiting for a free thread
C23_Witness ==
    /\ Cardinality(ClaimInFlight) = 5
    /\ \E c \in DOMAIN b_futures : b_futures[c] = "pending"
    /\ b_requests[1] = 0

(***************************************************************************)
(* C24: the early stop                                                     *)
(***************************************************************************)

\* the relevant items accumulated have reached the depth cap
ClaimCapReached == CountKept(b_results) >= max_relevant

\* C24: once the accumulated relevant items reach the depth cap the adapter
\* starts no further page request; in the bioRxiv fan-out no page fetch that
\* had not yet started is started afterwards.
C24_NoRequestAfterCap == [][ClaimCapReached => (b_requests' = b_requests)]_vars

\* what holds in the fan-out: once the cancel loop has run to its end no
\* request starts, and a future cancelled is never started
C24_NoRequestAfterCancel ==
    [][(b_pc \in {"shutdown", "returned"}) => (b_requests' = b_requests)]_vars

\* what holds for OpenAlex and Semantic Scholar: the page loop is left as
\* soon as the cap is reached
C24_PageLoopLeftAtCap ==
    [][(a_adapter \in {"openalex", "semanticscholar"}) /\ CountKept(a_results) >= max_results
       => (a_log' = a_log)]_vars

(***************************************************************************)
(* C25: the page caps                                                      *)
(***************************************************************************)

\* the caps of the claim
ClaimPageCap(adapter) ==
    CASE adapter \in {"biorxiv", "medrxiv"} -> 30
      [] adapter = "openalex" -> 5
      [] adapter = "semanticscholar" -> 3

\* C25: in one search an adapter never requests more pages than its cap,
\* whatever total the upstream reports: bioRxiv/medRxiv at most 30 pages
\* counting the first, OpenAlex at most 5, Semantic Scholar at most 3.
C25_PageCap == q_requests + Len(q_queue) <= ClaimPageCap(q_adapter)

\* the cap is reached: thirty requests of a preprint server for a total of
\* 100000 records
C25_Witness ==
    /\ q_pc = "returned"
    /\ q_adapter = "medrxiv"
    /\ q_total = 100000
    /\ q_requests = 30

\* the caps are reached by the other two adapters as well
C25_WitnessSequential ==
    /\ q_pc = "returned"
    /\ q_adapter \in {"openalex", "semanticscholar"}
    /\ q_requests = ClaimPageCap(q_adapter)

(***************************************************************************)
(* C26, C27, C28: dedupe_cross_source applied twice, what a removal rests  *)
(* on, and the item that always stays                                      *)
(***************************************************************************)

\* C26: dedupe_cross_source is idempotent: applied to its own output it
\* removes nothing, dedupe_cross_source(dedupe_cross_source(L)) =
\* dedupe_cross_source(L) for every item list L.
C26_CrossSourceIdempotent == DdDone => dedupe_cross_source(dd_out) = dd_out

\* the first application removed an item and left two for the second
C26_Witness ==
    /\ DdDone
    /\ Len(dd_items) = 3
    /\ Len(dd_out) = 2
    /\ dedupe_cross_source(dd_out) = dd_out

\* the indices dedupe_cross_source retained
ClaimRetained == (1..Len(dd_items)) \ Removed(dd_log)

\* C27: every item dedupe_cross_source removes shares a DOI, or has title
\* similarity >= the threshold, with at least one item the same call retains;
\* an item is never removed only on account of items that are themselves
\* removed.
C27_RemovedCollidesWithRetained ==
    DdDone =>
        \A r \in Removed(dd_log) :
            \E k \in ClaimRetained :
                ClaimShareDoi(dd_items[r], dd_items[k]) \/ ClaimSimilar(dd_items[r], dd_items[k])

\* what holds: every removed item collides with the item it was compared
\* with, which a later comparison may remove in its turn
C27_RemovedCollidesWithSomeItem ==
    DdDone =>
        \A e \in dd_log :
            /\ e.by # e.removed
            /\ ClaimShareDoi(dd_items[e.removed], dd_items[e.by])
               \/ ClaimSimilar(dd_items[e.removed], dd_items[e.by])

\* (source priority, -score, input position) of the item at index k
ClaimCrossRank(k) == <<ClaimPriority(dd_items[k]), 0 - dd_items[k].score, k>>
ClaimWithinRank(k) == <<0, 0 - dd_items[k].score, k>>

ClaimRankLeq(a, b) ==
    \/ a[1] < b[1]
    \/ a[1] = b[1] /\ a[2] < b[2]
    \/ a[1] = b[1] /\ a[2] = b[2] /\ a[3] <= b[3]

\* C28: for every non-empty input dedupe_cross_source retains the item least
\* under (source priority, -score, input position) and dedupe_within_source
\* the item least under (-score, input position); neither returns an empty
\* list for a non-empty input.
C28_BestRankedRetained ==
    DdDone /\ dd_items # <<>> =>
        /\ \A b \in 1..Len(dd_items) :
              (\A o \in 1..Len(dd_items) : ClaimRankLeq(ClaimCrossRank(b), ClaimCrossRank(o)))
              => b \in ClaimRetained
        /\ dd_out # <<>>
        /\ \A b \in 1..Len(dd_items) :
              (\A o \in 1..Len(dd_items) : ClaimRankLeq(ClaimWithinRank(b), ClaimWithinRank(o)))
              => b \notin WithinOuter(dd_items, 1, {})
        /\ dedupe_within_source(dd_items) # <<>>

\* the best-ranked item came last and displaced the two items before it
C28_Witness ==
    /\ DdDone
    /\ Len(dd_items) = 3
    /\ \A o \in 1..3 : ClaimRankLeq(ClaimCrossRank(3), ClaimCrossRank(o))
    /\ ClaimRetained = {3}
    /\ WithinOuter(dd_items, 1, {}) = {1, 2}

(***************************************************************************)
(* C29: the order of the per-source lists of the report                    *)
(***************************************************************************)

\* a is b with some elements deleted, the rest in the order of b
RECURSIVE ClaimIsSubseq(_, _)
ClaimIsSubseq(a, b) ==
    IF a = <<>> THEN TRUE
    ELSE IF b = <<>> THEN FALSE
    ELSE IF Head(a) = Head(b) THEN ClaimIsSubseq(Tail(a), Tail(b))
    ELSE ClaimIsSubseq(a, Tail(b))

\* the list of src as sort_items returned it, before any deduplication
ClaimSortedList(src) ==
    sort_items(
        score_items(
            filter_by_date_range(NormalizeRows(src, RawItems(p_raw, src)),
                                 from_date, to_date, FALSE)))

\* C29: dedupe_within_source, dedupe_cross_source and the redistribution by
\* item type only delete items and keep the relative order of the rest, so
\* each per-source list of the final report is the sorted list of its source
\* with some items deleted, and is ordered by (-score, -date, title).
C29_ReportListsKeepSortOrder ==
    PipeDone =>
        \A src \in SourceNames :
            /\ ClaimIsSubseq(p_report.items[src], ClaimSortedList(src))
            /\ \A k \in 1..(Len(p_report.items[src]) - 1) :
                   ClaimKeyLeq(p_report.items[src][k], p_report.items[src][k + 1])

\* a source whose three items arrived out of key order, of which one was
\* deleted and two, with different scores, are in the report
C29_Witness ==
    /\ PipeDone
    /\ \E src \in SourceNames :
          /\ Len(p_report.items[src]) = 2
          /\ Len(ClaimSortedList(src)) = 3
          /\ p_report.items[src][1].score > p_report.items[src][2].score
          /\ ClaimSortedList(src) #
               score_items(
                   filter_by_date_range(NormalizeRows(src, RawItems(p_raw, src)),
                                        from_date, to_date, FALSE))

(***************************************************************************)
(* C30: the list search_preprint_server returns and the completion order   *)
(* of the parallel page fetches                                            *)
(***************************************************************************)

FanReturned == b_pc = "returned"

\* the relevant items of the pages at cursors[k..], in cursor order
RECURSIVE ClaimPages(_, _)
ClaimPages(cursors, k) ==
    IF k > Len(cursors) THEN <<>>
    ELSE LET resp == FanResponse(b_profile, b_total, cursors[k]) IN
         (IF resp.kind = "ok" /\ resp.kept > 0 THEN <<Kept(cursors[k], resp.kept)>> ELSE <<>>)
             \o ClaimPages(cursors, k + 1)

\* the relevant items of the upstream: the first page, then the pages of
\* the submitted cursors
ClaimUpstreamItems == ClaimPages(<<0>> \o b_cursors, 1)

\* C30: for fixed upstream page contents the list the adapter returns is the
\* same for every completion order of the parallel fetches, also when the
\* relevant items of all pages exceed the depth cap: it is the list that the
\* completion in cursor order gives.
C30_ReturnIgnoresCompletionOrder ==
    (FanReturned /\ b_cursors # <<>>) =>
        b_return.items = Slice(ClaimUpstreamItems, max_relevant)

\* what holds: when the relevant items of all pages together do not exceed
\* the cap, the adapter returns the same items for every completion order,
\* in an order that is the completion order
C30_SameItemsWithinCap ==
    (FanReturned /\ b_cursors # <<>> /\ CountKept(ClaimUpstreamItems) <= max_relevant) =>
        /\ Range(b_return.items) = Range(ClaimUpstreamItems)
        /\ Len(b_return.items) = Len(ClaimUpstreamItems)

=============================================================================
